---- MODULE Spec2Model ----
(***************************************************************************)
(* Gmail job-application tracker: the incremental ingestion pipeline       *)
(* (fetchAndStoreGmailEmails), the classification gate, the rollup         *)
(* aggregator (upsertJobStatus) and the user-document stores               *)
(* (gmailStateStore / gmailTokenStore) of src/server.ts.                   *)
(*                                                                         *)
(* Strings are sequences of one-character strings, so that trim,           *)
(* toLowerCase, replace and slice are computed, not assumed.               *)
(* A step is one awaited call on a store or a remote service together with *)
(* the synchronous code that follows it (the reads made on entry of a run  *)
(* are one step); the outcome of the awaited call (value, not-found,       *)
(* error) is chosen by the environment.                                    *)
(***************************************************************************)
EXTENDS Integers, Sequences, FiniteSets, TLC

(***************************************************************************)
(* Bounds of the model.                                                    *)
(***************************************************************************)
\* Number of fetchAndStoreGmailEmails calls explored.
MaxRuns == 2
\* Number of direct upsertJobStatus calls explored.
MaxCalls == 3
\* Clock ticks per civil day (the clock ticks once per invocation).
TicksPerDay == 2

\* slice(0, 280) of the comment note.
NoteMax == 280

(***************************************************************************)
(* Strings.                                                                *)
(***************************************************************************)
IsSpace(c) == c \in {" ", "\t"}

ToLowerChar(c) ==
  CASE c = "A" -> "a"
    [] c = "B" -> "b"
    [] c = "C" -> "c"
    [] c = "X" -> "x"
    [] c = "R" -> "r"
    [] c = "L" -> "l"
    [] c = "F" -> "f"
    [] c = "O" -> "o"
    [] c = "M" -> "m"
    [] c = "T" -> "t"
    [] c = "S" -> "s"
    [] c = "D" -> "d"
    [] OTHER -> c

\* String.prototype.toLowerCase
ToLowerCase(s) == [i \in 1..Len(s) |-> ToLowerChar(s[i])]

RECURSIVE TrimStart(_)
TrimStart(s) ==
  IF s # <<>> /\ IsSpace(Head(s)) THEN TrimStart(Tail(s)) ELSE s

RECURSIVE TrimEnd(_)
TrimEnd(s) ==
  IF s # <<>> /\ IsSpace(s[Len(s)]) THEN TrimEnd(SubSeq(s, 1, Len(s) - 1)) ELSE s

\* String.prototype.trim
Trim(s) == TrimEnd(TrimStart(s))

\* s.replace(/\s+/g, '_'): every maximal run of whitespace becomes one '_'.
RECURSIVE ReplaceSpaceRuns(_)
ReplaceSpaceRuns(s) ==
  IF s = <<>> THEN <<>>
  ELSE IF IsSpace(Head(s))
       THEN <<"_">> \o ReplaceSpaceRuns(TrimStart(s))
       ELSE <<Head(s)>> \o ReplaceSpaceRuns(Tail(s))

\* A slice that stops one character early.
Slice0Short(s, n) == SubSeq(s, 1, IF Len(s) < n - 1 THEN Len(s) ELSE n - 1)

\* s.slice(0, n)
Slice0(s, n) == SubSeq(s, 1, IF Len(s) < n THEN Len(s) ELSE n)

Max(a, b) == IF a > b THEN a ELSE b

\* String.prototype.includes
Includes(s, t) ==
  \E k \in 0..(Len(s) - Len(t)) : SubSeq(s, k + 1, k + Len(t)) = t

(***************************************************************************)
(* Values.  An optional value (undefined | v) is the sequence <<>> or      *)
(* <<v>>.  A timestamp is a clock reading; 0 stands for an absent one.     *)
(***************************************************************************)
None == <<>>
Some(v) == <<v>>

\* ClassificationResult (types.ts); status "" stands for a missing status.
Classification(job, status, summary, company) ==
  [is_job_related |-> job, status |-> status, summary |-> summary,
   company_name |-> company]

\* CommentEntry, or a legacy comment that is a bare string (str = TRUE).
CommentEntry(date, note) == [str |-> FALSE, date |-> date, note |-> note]
LegacyComment(note) == [str |-> TRUE, date |-> 0, note |-> note]

\* String(x) of a comments element: a string is itself, an object prints as
\* "[object Object]".
ObjectObject == <<"[", "o", "b", "j", "]">>
StringOf(entry) == IF entry.str THEN entry.note ELSE ObjectObject

(***************************************************************************)
(* Aggregator: upsertJobStatus.                                            *)
(***************************************************************************)
ActionableStatuses == {"applied", "rejected", "next_steps", "comment_only"}

\* (ownerRaw || '').trim().toLowerCase()
NormalizeOwner(ownerRaw) == ToLowerCase(Trim(ownerRaw))

\* The early returns without the is_job_related test.
JobStatusSkippedByStatusOnly(ownerRaw, cls) ==
  \/ cls = None
  \/ Trim(cls[1].company_name) = <<>>
  \/ NormalizeOwner(ownerRaw) = <<>>
  \/ cls[1].status \notin ActionableStatuses

\* The early returns of upsertJobStatus: no classification, blank company,
\* blank owner, not job related, status outside the actionable four.
JobStatusSkipped(ownerRaw, cls) ==
  \/ cls = None
  \/ Trim(cls[1].company_name) = <<>>
  \/ NormalizeOwner(ownerRaw) = <<>>
  \/ ~cls[1].is_job_related
  \/ cls[1].status = "not_job_related"
  \/ cls[1].status \notin ActionableStatuses

\* A slug that turns every whitespace character into its own '_'.
CompanySlugNoCollapse(companyName) ==
  [i \in 1..Len(companyName) |->
     IF IsSpace(companyName[i]) THEN "_" ELSE ToLowerChar(companyName[i])]

\* companyName.toLowerCase().replace(/\s+/g, '_')
CompanySlug(companyName) == ReplaceSpaceRuns(ToLowerCase(companyName))

\* `${ownerEmail}::${companySlug}`
JobDocId(ownerEmail, companyName) ==
  ownerEmail \o <<":", ":">> \o CompanySlug(companyName)

\* A fresh rollup that already counts one application.
NewJobDocCounted(ownerEmail, companyName, today) ==
  [id |-> JobDocId(ownerEmail, companyName), owner |-> ownerEmail,
   company_name |-> companyName, applied |-> 1, rejected |-> 0,
   next_steps |-> 0, comments |-> <<>>, last_updated |-> today]

NewJobDoc(ownerEmail, companyName, today) ==
  [id |-> JobDocId(ownerEmail, companyName), owner |-> ownerEmail,
   company_name |-> companyName, applied |-> 0, rejected |-> 0,
   next_steps |-> 0, comments |-> <<>>, last_updated |-> today]

\* A list of bare strings that is emptied, as a comments field that is
\* not an array is.
UpgradeCommentsEmptied(comments, today) ==
  IF comments # <<>> /\ comments[1].str THEN <<>> ELSE comments

\* A comments list whose first element is a string is rewritten as entries
\* dated today.
UpgradeComments(comments, today) ==
  IF comments # <<>> /\ comments[1].str
  THEN [i \in 1..Len(comments) |-> CommentEntry(today, StringOf(comments[i]))]
  ELSE comments

\* A change that counts a rejection as an application as well.
ApplyStatusRejectedTwice(doc, c, today) ==
  CASE c.status = "applied" -> [doc EXCEPT !.applied = @ + 1]
    [] c.status = "rejected" ->
         [doc EXCEPT !.rejected = @ + 1, !.applied = @ + 1]
    [] c.status = "next_steps" -> [doc EXCEPT !.next_steps = @ + 1]
    [] c.status = "comment_only" ->
         [doc EXCEPT !.comments =
            Append(@, CommentEntry(today, Slice0(c.summary, NoteMax)))]
    [] OTHER -> doc

\* The one change upsertJobStatus applies for the status.
ApplyStatus(doc, c, today) ==
  CASE c.status = "applied" -> [doc EXCEPT !.applied = @ + 1]
    [] c.status = "rejected" -> [doc EXCEPT !.rejected = @ + 1]
    [] c.status = "next_steps" -> [doc EXCEPT !.next_steps = @ + 1]
    [] c.status = "comment_only" ->
         [doc EXCEPT !.comments =
            Append(@, CommentEntry(today, Slice0(c.summary, NoteMax)))]
    [] OTHER -> doc

\* A write that applies the status to a new rollup only.
JobDocWrittenOnce(existing, ownerRaw, c, today) ==
  IF existing = None
  THEN [ApplyStatus(NewJobDoc(NormalizeOwner(ownerRaw), Trim(c.company_name),
                              today), c, today)
          EXCEPT !.last_updated = today]
  ELSE [existing[1] EXCEPT !.last_updated = today]

\* The document upsertJobStatus writes, given the result of its read
\* (existing = None when the read finds nothing).
JobDocWritten(existing, ownerRaw, c, today) ==
  LET ownerEmail == NormalizeOwner(ownerRaw)
      companyName == Trim(c.company_name)
      doc0 == IF existing = None
              THEN NewJobDoc(ownerEmail, companyName, today)
              ELSE existing[1]
      doc1 == [doc0 EXCEPT !.comments = UpgradeComments(@, today)]
      doc2 == ApplyStatus(doc1, c, today)
  IN [doc2 EXCEPT !.last_updated = today]

(***************************************************************************)
(* The world of the model.                                                 *)
(***************************************************************************)
\* The signed-in account, as stored (trimmed, lower case).
OwnerA == <<"a", "@", "x">>
\* What callers pass as ownerRaw.
OwnerRaws == {OwnerA, <<" ", "A", "@", "X", " ">>, <<>>}

\* The messages the owner's mailbox may hold; which of them a page lists is
\* the mailbox's choice.
MsgIds == {"m1", "m2"}
\* data.internalDate of each message, in ms since the epoch.
RawInternalDate == [id \in MsgIds |-> IF id = "m1" THEN 1500 ELSE 2500]

Acme == <<"A", "c">>
Beta == <<"B">>
ShortSummary == <<"o", "k">>
\* What the classifier's JSON may parse to during a sync.
ClassifierOutputs ==
  { Classification(TRUE, "applied", ShortSummary, Acme),
    Classification(FALSE, "not_job_related", ShortSummary, <<>>) }

\* What the chat-completions endpoint may answer to classifyEmail's request:
\* fetch throws, a non-2xx status, a 2xx body without content, content that
\* is not JSON, content that parses to value.
ClassifierResponses ==
  { [kind |-> k, value |-> None] :
      k \in {"transport", "http429", "http503", "http500", "empty", "badjson"} }
  \cup { [kind |-> "json", value |-> Some(c)] : c \in ClassifierOutputs }

\* A classifier that answers an empty completion with a result.
ClassifyEmailEmptyAnswers(resp) ==
  [out |-> IF resp.kind = "json" THEN resp.value
           ELSE IF resp.kind = "empty"
           THEN Some(Classification(TRUE, "applied", <<>>, Acme))
           ELSE None,
   requests |-> 1]

\* classifyEmail: one request; every throw inside its try is caught and
\* answered with null.  requests is the number of requests it made.
ClassifyEmail(resp) ==
  [out |-> IF resp.kind = "json" THEN resp.value ELSE None, requests |-> 1]

\* Token bundles: the consent handshake yields both fields, a refresh only a
\* new access token.
ConsentTokens == [access_token |-> 1, refresh_token |-> 1]
RefreshedTokens == [access_token |-> 2]

Runs == {"r1", "r2"}

VARIABLES
  users,      \* users container: set of UserDoc
  emails,     \* emails container: set of GmailEmailDoc
  jobs,       \* applications container: set of JobDoc
  run,        \* run id -> frame of one fetchAndStoreGmailEmails call
  tsave,      \* the saveTokens call in flight, if any
  now,        \* the clock
  openaiKey,  \* whether OPENAI_API_KEY is set
  applied,    \* history: <<owner, id>> -> rollup writes made for the message
  everListed, \* history: the <<owner, id>> some page has listed
  tally,      \* history: rollup id -> successful direct calls, by status
  aggCall,    \* history: the last direct upsertJobStatus call and its result
  classifyCall, \* history: the classifier exchange of the step just taken
  chat,       \* the callChat call: its position, requests and sleeps
  http,       \* the POST /api/gmail/fetch request being served, its response
  cron,       \* the scheduled sweep: its position, owners left, calls made
  step,       \* history: the store step just taken and its fault
  filt,       \* the last filterEmailsByCompany call: arguments and result
  vault,      \* the Key Vault secrets and the saveTokens call on them
  pages,      \* the page loop of the call under way: tokens sent and got
  hdr,        \* the last header extraction: the headers and the fields
  day         \* the last getPreviousEasternDayRangeSeconds call

vars == <<users, emails, jobs, run, tsave, now, openaiKey, applied,
          everListed, tally, aggCall, classifyCall, chat, http, cron, step,
          filt, vault, pages, hdr, day>>

\* The stores, the calls of fetchAndStoreGmailEmails, upsertJobStatus and
\* callChat, and their histories.
coreVars == <<users, emails, jobs, run, tsave, now, openaiKey, applied,
              everListed, tally, aggCall, classifyCall, chat>>

\* The page log and the calls of the pure helpers.
logVars == <<pages, hdr, day>>

\* The request handler, the sweep, the company filter, the vault and the
\* logs.
sideVars == <<http, cron, filt, vault, logVars>>

\* sideVars and the step history.
webVars == <<sideVars, step>>

\* new Date().toISOString().slice(0, 10): the civil day of the clock reading.
Today == now \div TicksPerDay

\* Two documents of a container partitioned by /owner are the same item.
SameItem(d, e) == d.id = e.id /\ d.owner = e.owner

\* An insert that never replaces.
UpsertAsInsert(store, doc) == store \cup {doc}

\* container.items.upsert(doc): the document replaces the stored item that
\* has its id and partition key, or is added.
Upsert(store, doc) == {d \in store : ~SameItem(d, doc)} \cup {doc}

\* container.item(id, pk).read(): the stored document, if any.
ReadItem(store, id, pk) ==
  LET hits == {d \in store : d.id = id /\ d.owner = pk}
  IN IF hits = {} THEN None ELSE Some(CHOOSE d \in hits : TRUE)

\* The users container is partitioned by /userid.
UpsertUser(store, doc) ==
  {d \in store : ~(d.id = doc.id /\ d.userid = doc.userid)} \cup {doc}

ReadUser(store, pk) ==
  LET hits == {d \in store : d.id = pk /\ d.userid = pk}
  IN IF hits = {} THEN None ELSE Some(CHOOSE d \in hits : TRUE)

\* {...a, ...b}: b's fields overwrite, a's others are retained.
MergeFields(a, b) == b @@ a

\* gmailStateStore.loadState: (resource && resource.gmailState) || null
LoadState(pk) ==
  IF ReadUser(users, pk) = None THEN None ELSE ReadUser(users, pk)[1].gmailState

\* tokenStore.loadTokens: (resource && resource.gmailTokens) || null
LoadTokens(pk) ==
  IF ReadUser(users, pk) = None THEN None ELSE ReadUser(users, pk)[1].gmailTokens

\* The stored cursor lastInternalDateMs of an owner; 0 when there is none.
Cursor(pk) ==
  IF LoadState(pk) = None THEN 0 ELSE LoadState(pk)[1].lastInternalDateMs

\* Date.now(), in the unit of internalDate: later than any message held.
DateNow == 1000 * (Cardinality(MsgIds) + 1) + now

\* Number(data.internalDate) || Date.now()
InternalDateMs(raw) == IF raw = 0 THEN DateNow ELSE raw

\* upsertJobStatus as a whole: what it returns and the store it leaves.  A
\* failing read (other than 404) or upsert makes it throw.
UpsertJobStatus(store, ownerRaw, cls, today, fault) ==
  IF JobStatusSkipped(ownerRaw, cls)
  THEN [store |-> store, ret |-> None, threw |-> FALSE]
  ELSE IF fault
  THEN [store |-> store, ret |-> None, threw |-> TRUE]
  ELSE LET pk == NormalizeOwner(ownerRaw)
           docId == JobDocId(pk, Trim(cls[1].company_name))
           doc == JobDocWritten(ReadItem(store, docId, pk), ownerRaw, cls[1], today)
       IN [store |-> Upsert(store, doc), ret |-> Some(doc), threw |-> FALSE]

(***************************************************************************)
(* fetchAndStoreGmailEmails: one frame per call.                           *)
(***************************************************************************)
\* No query built yet.
NoQuery == [kind |-> "none", after |-> 0]

\* A query that passes the cursor on in milliseconds.
GmailQueryNoFloor(override, last) ==
  IF override THEN [kind |-> "override", after |-> 0]
  ELSE IF last # 0 THEN [kind |-> "after", after |-> last]
  ELSE [kind |-> "newer_than", after |-> 0]

\* gmailQuery: the override text; else after:<floor(last / 1000)> when a
\* cursor was loaded; else newer_than:7d.
GmailQuery(override, last) ==
  IF override THEN [kind |-> "override", after |-> 0]
  ELSE IF last # 0 THEN [kind |-> "after", after |-> last \div 1000]
  ELSE [kind |-> "newer_than", after |-> 0]

\* A frame that is not running; result and fetched are what the last call
\* returned ("ok") or how it rejected.
IdleRun(result, fetched) ==
  [pc |-> "idle", owner |-> <<>>, override |-> FALSE, skip |-> FALSE,
   last |-> 0, max |-> 0, docs |-> {}, more |-> FALSE, queue |-> {},
   listed |-> {}, cur |-> None, snap |-> None, query |-> NoQuery,
   result |-> result, fetched |-> fetched]

\* No saveTokens call in flight.  byOverride records whether the call was
\* started by the callback of a run that had a query override.
NoTokenSave ==
  [pc |-> "idle", owner |-> <<>>, tokens |-> None, snap |-> None,
   byOverride |-> FALSE]

NoAggCall ==
  [n |-> 0, owner |-> <<>>, cls |-> None, ret |-> None, threw |-> FALSE]

\* The step just taken was not a classification.
NoClassifyCall == [kind |-> "none", requests |-> 0, threw |-> FALSE,
                   upsertFailed |-> FALSE]

\* No callChat call has been made.
NoChat ==
  [pc |-> "idle", model |-> "", i |-> 0, log |-> <<>>, sleeps |-> <<>>,
   lastError |-> None, returned |-> None]

\* No request served yet: owner is the ownerEmail of the last request that
\* got as far as the call, status and code are those of the last response.
NoHttp == [pc |-> "idle", owner |-> <<>>, status |-> 0, code |-> "",
           fetched |-> 0]

\* No sweep made yet.  calls is the log of the sweep's calls of
\* fetchAndStoreGmailEmails, listed the owners listOwners returned.
NoCron == [pc |-> "idle", owners |-> <<>>, listed |-> <<>>, calls |-> <<>>]

\* The step just taken was not the store step of a message.
NoStep == [op |-> "none", id |-> "", fault |-> "none"]

\* filterEmailsByCompany not called yet.
NoFilter == [called |-> FALSE, emails |-> <<>>, name |-> <<>>, result |-> <<>>]

\* An empty vault, no saveTokens call on it, nothing loaded from it.
NoVault == [secrets |-> {}, pc |-> "idle", owner |-> <<>>, tokens |-> None,
            existing |-> None]

\* No page requested yet: token is the local pageToken (undefined), sent
\* the pageToken of each messages.list request, got each response's ids and
\* nextPageToken, stored the upserts of fetched messages made by the call.
NoPages == [token |-> None, sent |-> <<>>, got |-> <<>>,
            stored |-> [id \in MsgIds |-> 0]]

\* No message's headers extracted yet.
NoHeaders == [called |-> FALSE, headers |-> <<>>, from |-> <<>>, to |-> <<>>,
              subject |-> <<>>, date |-> <<>>]

\* getPreviousEasternDayRangeSeconds not called yet.
NoRange == [called |-> FALSE, at |-> 0, after |-> 0, before |-> 0]

WebIdle ==
  /\ http = NoHttp /\ cron = NoCron /\ step = NoStep
  /\ filt = NoFilter /\ vault = NoVault /\ pages = NoPages
  /\ hdr = NoHeaders /\ day = NoRange

ConnectedUser(pk) ==
  [id |-> pk, userid |-> pk, gmailTokens |-> Some(ConsentTokens),
   gmailState |-> None]

\* Nothing stored yet; the owner has connected Gmail or has not.
Init ==
  /\ users \in {{}, {ConnectedUser(OwnerA)}}
  /\ emails = {}
  /\ jobs = {}
  /\ run = [r \in Runs |-> IdleRun("none", 0)]
  /\ tsave = NoTokenSave
  /\ now = 0
  /\ openaiKey \in BOOLEAN
  /\ applied = <<>>
  /\ everListed = {}
  /\ tally = <<>>
  /\ aggCall = NoAggCall
  /\ classifyCall = NoClassifyCall
  /\ chat = NoChat
  /\ WebIdle

\* No other call for the owner is in flight.
NoOtherRun(r, pk) ==
  \A q \in Runs \ {r} : run[q].pc = "idle" \/ run[q].owner # pk

\* The call rejects: the frame is dropped, stores stay as they are.
Reject(r, code) == run' = [run EXCEPT ![r] = IdleRun(code, 0)]

\* A loop that ends with the first page that has messages.
SettleBeforeExhaustion(f) ==
  IF f.queue # {} THEN [f EXCEPT !.pc = "msg"]
  ELSE IF f.docs = {} THEN (IF f.more THEN [f EXCEPT !.pc = "paging"]
                            ELSE IdleRun("ok", 0))
  ELSE IF ~f.override /\ ~f.skip /\ f.max > f.last
       THEN [f EXCEPT !.pc = "saveRead"]
       ELSE IdleRun("ok", Cardinality(f.docs))

\* Where the call goes once the current message (or an empty page) is done:
\* the next message of the page, the next page, or the end of the loop; at
\* the end, an empty docs list returns fetched 0, and the cursor is saved
\* only if useState, not skipStateUpdate and maxInternalDate > last.
Settle(f) ==
  IF f.queue # {} THEN [f EXCEPT !.pc = "msg"]
  ELSE IF f.more THEN [f EXCEPT !.pc = "paging"]
  ELSE IF f.docs = {} THEN IdleRun("ok", 0)
  ELSE IF ~f.override /\ ~f.skip /\ f.max > f.last
       THEN [f EXCEPT !.pc = "saveRead"]
       ELSE IdleRun("ok", Cardinality(f.docs))

\* lastInternalDateMs as the call loads it: null (0) with a query override,
\* else the stored cursor, null when there is none.
LoadedCursor(pk, override) == IF override THEN 0 ELSE Cursor(pk)

\* Entry of fetchAndStoreGmailEmails up to getProfile: owner check,
\* loadTokens, loadState (only without a query override), getProfile.
StartRun(r, ownerRaw, override, skip, fault) ==
  LET pk == NormalizeOwner(ownerRaw) IN
  /\ run[r].pc = "idle"
  /\ now < MaxRuns
  /\ now' = now + 1
  /\ UNCHANGED <<users, emails, jobs, tsave, openaiKey, applied, everListed,
                 tally, aggCall, chat>>
  /\ classifyCall' = NoClassifyCall
  /\ IF pk = <<>> THEN Reject(r, "owner_required")
     ELSE IF LoadTokens(pk) = None THEN Reject(r, "NO_GMAIL_TOKENS")
     ELSE IF fault THEN Reject(r, "error")
     ELSE LET last == LoadedCursor(pk, override) IN
          run' = [run EXCEPT ![r] =
                    [IdleRun("running", 0) EXCEPT
                       !.pc = "paging", !.owner = pk, !.override = override,
                       !.skip = skip, !.last = last, !.max = last,
                       !.query = GmailQuery(override, last),
                       !.more = TRUE]]

\* The messages the run's query can match.  With a query override, or
\* without a cursor (newer_than:7d), any message may match; with a cursor
\* the query is after:<cursor in seconds>, which matches no message older
\* than the cursor (whether it matches one of the cursor's own second is
\* left to Gmail).
QueryMatches(override, last) ==
  LET q == GmailQuery(override, last) IN
  IF q.kind = "after"
  THEN {id \in MsgIds : RawInternalDate[id] \div 1000 >= q.after}
  ELSE MsgIds

\* A page whose continuation token is dropped.
ListPageIgnoringToken(r, ids, more, fault) ==
  /\ run[r].pc = "paging"
  /\ ids \subseteq QueryMatches(run[r].override, run[r].last) \ run[r].listed
  /\ UNCHANGED <<users, emails, jobs, tsave, now, openaiKey, applied, tally,
                 aggCall, chat>>
  /\ classifyCall' = NoClassifyCall
  /\ IF fault
     THEN Reject(r, "error") /\ UNCHANGED everListed
     ELSE /\ run' = [run EXCEPT ![r] =
                       Settle([@ EXCEPT !.queue = ids, !.more = FALSE,
                                        !.listed = @ \cup ids])]
          /\ everListed' = everListed \cup {<<run[r].owner, id>> : id \in ids}

\* gmail.users.messages.list: one page of ids matching the query and not
\* listed before in this call, with or without a continuation token.
ListPage(r, ids, more, fault) ==
  /\ run[r].pc = "paging"
  /\ ids \subseteq QueryMatches(run[r].override, run[r].last) \ run[r].listed
  /\ UNCHANGED <<users, emails, jobs, tsave, now, openaiKey, applied, tally,
                 aggCall, chat>>
  /\ classifyCall' = NoClassifyCall
  /\ IF fault
     THEN Reject(r, "error") /\ UNCHANGED everListed
     ELSE /\ run' = [run EXCEPT ![r] =
                       Settle([@ EXCEPT !.queue = ids, !.more = more,
                                        !.listed = @ \cup ids])]
          /\ everListed' = everListed \cup {<<run[r].owner, id>> : id \in ids}

\* alreadyClassified: Boolean(resource?.classification?.status)
AlreadyClassified(doc) ==
  doc.classification # None /\ doc.classification[1].status # ""

\* The document built from the fetched message, before the merge.  Of the
\* fields copied from the message only internalDate is kept; fetchedAt is
\* the clock reading and is read once, by the merge.
FetchedDoc(pk, id, raw) ==
  [id |-> id, owner |-> pk, internalDate |-> InternalDateMs(raw),
   classification |-> None, classifiedAt |-> 0, createdAt |-> 0]

\* The carry-forward of classification, classifiedAt and createdAt from the
\* existing document (createdAt falls back to this fetch's fetchedAt).
MergeExisting(doc, existing) ==
  IF existing = None THEN doc
  ELSE [doc EXCEPT !.classification = existing[1].classification,
                   !.classifiedAt = existing[1].classifiedAt,
                   !.createdAt = IF existing[1].createdAt # 0
                                 THEN existing[1].createdAt ELSE now]

\* A read whose failure is not noticed.
ExistingDocReadAnyway(id, pk, readFails) == ReadItem(emails, id, pk)

\* What the read of the existing document leaves in existingDoc: an error
\* other than 404 is logged and leaves it null.
ExistingDoc(id, pk, readFails) ==
  IF readFails THEN None ELSE ReadItem(emails, id, pk)

\* One message of the page: messages.get, the read of the existing
\* document, the merge and the upsert; then the gate.
StoreMessage(r, id, fault) ==
  LET f == run[r]
      pk == f.owner
      doc0 == FetchedDoc(pk, id, RawInternalDate[id])
      doc == MergeExisting(doc0, ExistingDoc(id, pk, fault = "read"))
      g == [f EXCEPT !.max = Max(@, doc0.internalDate), !.queue = @ \ {id}]
  IN
  /\ f.pc = "msg"
  /\ id \in f.queue
  /\ UNCHANGED <<users, jobs, tsave, now, openaiKey, applied, everListed,
                 tally, aggCall, chat>>
  /\ classifyCall' = NoClassifyCall
  /\ IF fault \in {"get", "upsert"}
     THEN /\ Reject(r, "error")
          /\ UNCHANGED emails
     ELSE /\ emails' = Upsert(emails, doc)
          /\ IF ~AlreadyClassified(doc) /\ openaiKey
             THEN run' = [run EXCEPT ![r] =
                            [g EXCEPT !.pc = "classify", !.cur = Some(doc)]]
             ELSE run' = [run EXCEPT ![r] = Settle([g EXCEPT !.docs = @ \cup {id}])]

\* classifyEmailAndUpsert and the second upsert: classifyEmail answers null
\* (out = None) or a parsed result; upsertJobStatus may throw (caught and
\* logged); the upsert of the classified document may throw (caught and
\* logged by the caller's try).
ClassifyMessage(r, resp, fault) ==
  LET f == run[r]
      out == ClassifyEmail(resp).out
      pk == f.owner
      doc == f.cur[1]
      key == <<pk, doc.id>>
      res == UpsertJobStatus(jobs, pk, out, Today, fault = "jobs")
      classified == [doc EXCEPT !.classification = out, !.classifiedAt = now]
      g == [f EXCEPT !.cur = None, !.docs = @ \cup {doc.id}]
  IN
  /\ f.pc = "classify"
  /\ out = None => fault = "none"
  /\ UNCHANGED <<users, tsave, now, openaiKey, everListed, tally, aggCall, chat>>
  /\ jobs' = res.store
  /\ applied' = IF res.ret # None
                THEN (key :> (IF key \in DOMAIN applied THEN applied[key] + 1 ELSE 1))
                     @@ applied
                ELSE applied
  /\ emails' = IF out # None /\ fault # "upsert"
               THEN Upsert(emails, classified)
               ELSE emails
  /\ run' = [run EXCEPT ![r] = Settle(g)]
  /\ classifyCall' = [kind |-> resp.kind,
                      requests |-> ClassifyEmail(resp).requests,
                      threw |-> res.threw,
                      upsertFailed |-> (out # None /\ fault = "upsert")]

(***************************************************************************)
(* gmailStateStore.saveState and gmailTokenStore.saveTokens: each reads    *)
(* the owner's user document and then upserts a rebuilt one.               *)
(***************************************************************************)
\* The UserDoc saveState upserts from the document it read.
StateDocWritten(pk, existing, partial) ==
  [id |-> pk, userid |-> pk,
   gmailState |->
     Some(MergeFields(IF existing = None \/ existing[1].gmailState = None
                      THEN <<>> ELSE existing[1].gmailState[1],
                      partial)),
   gmailTokens |-> IF existing = None THEN None ELSE existing[1].gmailTokens]

\* The UserDoc saveTokens upserts from the document it read.
TokensDocWritten(pk, existing, newTokens) ==
  [id |-> pk, userid |-> pk,
   gmailTokens |->
     Some(MergeFields(IF existing = None \/ existing[1].gmailTokens = None
                      THEN <<>> ELSE existing[1].gmailTokens[1],
                      newTokens)),
   gmailState |-> IF existing = None THEN None ELSE existing[1].gmailState]

\* saveState, first await: the read of the user document.
SaveStateRead(r, fault) ==
  /\ run[r].pc = "saveRead"
  /\ UNCHANGED <<users, emails, jobs, tsave, now, openaiKey, applied,
                 everListed, tally, aggCall, chat>>
  /\ classifyCall' = NoClassifyCall
  /\ IF fault THEN Reject(r, "error")
     ELSE run' = [run EXCEPT ![r] =
                    [@ EXCEPT !.pc = "saveWrite",
                              !.snap = Some(ReadUser(users, run[r].owner))]]

\* saveState, second await: the upsert; the call then returns fetched.
SaveStateWrite(r, fault) ==
  LET f == run[r] IN
  /\ f.pc = "saveWrite"
  /\ UNCHANGED <<emails, jobs, tsave, now, openaiKey, applied, everListed,
                 tally, aggCall, chat>>
  /\ classifyCall' = NoClassifyCall
  /\ IF fault
     THEN Reject(r, "error") /\ UNCHANGED users
     ELSE /\ users' = UpsertUser(users,
                        StateDocWritten(f.owner, f.snap[1],
                                        [lastInternalDateMs |-> f.max]))
          /\ run' = [run EXCEPT ![r] = IdleRun("ok", Cardinality(f.docs))]

\* client.on('tokens'): a Gmail call of the run refreshed the access token;
\* saveTokens is started, not awaited, and reads the user document (a
\* failed read ends it, logged).
TokensEvent(r, fault) ==
  /\ run[r].pc \in {"paging", "msg"}
  /\ tsave.pc = "idle"
  /\ tsave' = IF fault THEN NoTokenSave
              ELSE [pc |-> "write", owner |-> run[r].owner,
                    tokens |-> Some(RefreshedTokens),
                    snap |-> Some(ReadUser(users, run[r].owner)),
                    byOverride |-> run[r].override]
  /\ UNCHANGED <<users, emails, jobs, run, now, openaiKey, applied,
                 everListed, tally, aggCall,
                 classifyCall, chat>>

\* saveTokens, second await: the upsert (a failure is logged).
SaveTokensWrite(fault) ==
  /\ tsave.pc = "write"
  /\ users' = IF fault THEN users
              ELSE UpsertUser(users,
                     TokensDocWritten(tsave.owner, tsave.snap[1], tsave.tokens[1]))
  /\ tsave' = NoTokenSave
  /\ UNCHANGED <<emails, jobs, run, now, openaiKey, applied, everListed,
                 tally, aggCall,
                 classifyCall, chat>>

\* The steps of a call other than the classification of a message.
SyncStep(r) ==
  \/ \E o \in OwnerRaws, ov \in BOOLEAN, sk \in BOOLEAN, fault \in BOOLEAN :
       /\ StartRun(r, o, ov, sk, fault)
       /\ NoOtherRun(r, NormalizeOwner(o))
       /\ UNCHANGED webVars
  \/ \E ids \in SUBSET MsgIds, more \in BOOLEAN, fault \in BOOLEAN :
       ListPage(r, ids, more, fault) /\ UNCHANGED webVars
  \/ \E id \in MsgIds, fault \in {"none", "get", "read", "upsert"} :
       StoreMessage(r, id, fault) /\ UNCHANGED webVars
  \/ \E fault \in BOOLEAN : SaveStateRead(r, fault) /\ UNCHANGED webVars
  \/ \E fault \in BOOLEAN : SaveStateWrite(r, fault) /\ UNCHANGED webVars

ClassifyStep(r) ==
  \E resp \in ClassifierResponses, fault \in {"none", "jobs", "upsert"} :
    ClassifyMessage(r, resp, fault) /\ UNCHANGED webVars

TokenStep ==
  \/ \E r \in Runs, fault \in BOOLEAN :
       TokensEvent(r, fault) /\ UNCHANGED webVars
  \/ \E fault \in BOOLEAN : SaveTokensWrite(fault) /\ UNCHANGED webVars

\* Sync runs one at a time, none of them refreshing the access token.  The
\* message and rollup stores are decided here: a credential save touches
\* the user document only.
Next == SyncStep("r1") \/ ClassifyStep("r1")

Spec == Init /\ [][Next]_vars

\* Sync runs one at a time, with the credential saves they start
\* interleaved; classification is disabled (OPENAI_API_KEY unset), which
\* leaves every step that reads or writes the user document in place.
InitCred == Init /\ ~openaiKey

NextCred == SyncStep("r1") \/ TokenStep

SpecCred == InitCred /\ [][NextCred]_vars

(***************************************************************************)
(* Runs of one connected owner with the classifier enabled, whose answers  *)
(* may parse to an object outside the schema, and with reads of the        *)
(* existing document that may fail.                                        *)
(***************************************************************************)
\* Parsed content whose status is none of the five of the prompt's schema.
OffSchemaOutput == Classification(TRUE, "interview", ShortSummary, Acme)

\* Answers of the chat-completions endpoint: content parsing to a result of
\* the schema, content parsing to another object, no content.
SchemaResponses ==
  { [kind |-> "json", value |-> Some(Classification(TRUE, "applied", ShortSummary, Acme))],
    [kind |-> "json", value |-> Some(OffSchemaOutput)],
    [kind |-> "empty", value |-> None] }

InitStore == Init /\ users # {} /\ openaiKey

\* The store step of a message, recorded with its fault.
StoreStep(r) ==
  \E id \in MsgIds, fault \in {"none", "read"} :
    /\ StoreMessage(r, id, fault)
    /\ step' = [op |-> "store", id |-> id, fault |-> fault]
    /\ UNCHANGED sideVars

NextStore ==
  \/ \E ov \in BOOLEAN :
       /\ StartRun("r1", OwnerA, ov, FALSE, FALSE)
       /\ step' = NoStep /\ UNCHANGED sideVars
  \/ \E ids \in SUBSET MsgIds, more \in BOOLEAN :
       /\ ListPage("r1", ids, more, FALSE)
       /\ step' = NoStep /\ UNCHANGED sideVars
  \/ StoreStep("r1")
  \/ \E resp \in SchemaResponses :
       /\ ClassifyMessage("r1", resp, "none")
       /\ step' = NoStep /\ UNCHANGED sideVars
  \/ SaveStateRead("r1", FALSE) /\ step' = NoStep /\ UNCHANGED sideVars
  \/ SaveStateWrite("r1", FALSE) /\ step' = NoStep /\ UNCHANGED sideVars

SpecStore == InitStore /\ [][NextStore]_vars

(***************************************************************************)
(* upsertJobStatus called directly, on a store that is empty or holds a    *)
(* rollup written before comments became {date, note} records.             *)
(***************************************************************************)
LongSummary == <<"a", "b", "c">>

\* The classifications handed to upsertJobStatus.
AggInputs ==
  { Classification(TRUE, "applied", ShortSummary, Acme),
    Classification(TRUE, "rejected", ShortSummary, Acme),
    Classification(TRUE, "next_steps", ShortSummary, Acme),
    Classification(TRUE, "comment_only", LongSummary, Acme),
    Classification(TRUE, "applied", ShortSummary, <<"a", "c", " ">>),
    Classification(TRUE, "applied", ShortSummary, Beta),
    Classification(TRUE, "comment_only", ShortSummary, Beta),
    Classification(FALSE, "applied", ShortSummary, Acme),
    Classification(TRUE, "not_job_related", ShortSummary, Acme),
    Classification(TRUE, "interview", ShortSummary, Acme),
    Classification(TRUE, "", ShortSummary, Acme),
    Classification(TRUE, "applied", ShortSummary, <<" ">>) }

\* A rollup of an earlier version: comments are bare strings.
LegacyJobDoc ==
  [NewJobDoc(OwnerA, Beta, 0) EXCEPT
     !.applied = 1, !.comments = <<LegacyComment(<<"h", "i">>)>>]

InitAgg ==
  /\ users = {ConnectedUser(OwnerA)}
  /\ emails = {}
  /\ jobs \in {{}, {LegacyJobDoc}}
  /\ run = [r \in Runs |-> IdleRun("none", 0)]
  /\ tsave = NoTokenSave
  /\ now = 0
  /\ openaiKey = TRUE
  /\ applied = <<>>
  /\ everListed = {}
  /\ tally = <<>>
  /\ aggCall = NoAggCall
  /\ classifyCall = NoClassifyCall
  /\ chat = NoChat
  /\ WebIdle

\* The calls counted so far for a rollup id and a status.
TallyOf(t, docId, status) ==
  IF <<docId, status>> \in DOMAIN t THEN t[<<docId, status>>] ELSE 0

\* One call upsertJobStatus(jobsContainer, ownerRaw, cls); the clock ticks
\* once per call.
CallUpsertJobStatus(ownerRaw, cls, fault) ==
  LET res == UpsertJobStatus(jobs, ownerRaw, cls, Today, fault) IN
  /\ now < MaxCalls
  /\ now' = now + 1
  /\ jobs' = res.store
  /\ aggCall' = [n |-> now + 1, owner |-> ownerRaw, cls |-> cls,
                 ret |-> res.ret, threw |-> res.threw]
  /\ tally' = IF res.ret = None THEN tally
              ELSE LET k == <<res.ret[1].id, cls[1].status>>
                   IN (k :> (TallyOf(tally, k[1], k[2]) + 1)) @@ tally
  /\ UNCHANGED <<users, emails, run, tsave, openaiKey, applied, everListed,
                 classifyCall, chat>>
  /\ UNCHANGED webVars

NextAgg ==
  \E o \in OwnerRaws, cls \in {None} \cup {Some(c) : c \in AggInputs},
     fault \in BOOLEAN :
    CallUpsertJobStatus(o, cls, fault)

SpecAgg == InitAgg /\ [][NextAgg]_vars

(***************************************************************************)
(* upsertJobStatus called with names that differ in case and whitespace    *)
(* and with summaries around the note limit.                               *)
(***************************************************************************)
\* Company names that differ in case, surrounding and inner whitespace.
NameVariants ==
  { <<"A", " ", "c">>, <<"a", " ", " ", "c">>, <<" ", "a", "\t", "c", " ">>,
    <<"A", "c">>, <<"a", "c", " ">> }

\* A summary of n characters.
SummaryOf(n) == [i \in 1..n |-> IF i % 2 = 1 THEN "x" ELSE "y"]

SummaryLengths == {3, NoteMax, NoteMax + 1, 500}

TextInputs ==
  { Classification(TRUE, "applied", ShortSummary, n) : n \in NameVariants }
  \cup { Classification(TRUE, "comment_only", SummaryOf(n), Acme) :
           n \in SummaryLengths }

NextText ==
  \E o \in OwnerRaws \ {<<>>}, c \in TextInputs :
    CallUpsertJobStatus(o, Some(c), FALSE)

SpecText == InitAgg /\ [][NextText]_vars

(***************************************************************************)
(* openaiClient: callChat and its per-model backoff ladder.                *)
(***************************************************************************)
DefaultPolicy == [backoffMs |-> <<500, 1000, 2000>>]

ModelPolicies ==
  [m \in {"gpt-4o-mini", "gpt-5-mini", "gpt-5-nano"} |->
     IF m = "gpt-5-nano"
     THEN [backoffMs |-> <<300, 600, 1200, 2400>>]
     ELSE [backoffMs |-> <<400, 800, 1600, 3200>>]]

\* A lookup that ignores the per-model table.
PolicyOfDefaultOnly(model) == DefaultPolicy

\* modelPolicies[options.model] || defaultPolicy
PolicyOf(model) ==
  IF model \in DOMAIN ModelPolicies THEN ModelPolicies[model] ELSE DefaultPolicy

\* The models callChat is asked for.
ChatModels == {"gpt-4o-mini", "gpt-5-nano", "gpt-4.1"}

RateLimitText == <<"R", "a", "t", "e", " ", "L", "i", "m", "i", "t">>
RequestFailedText == <<"f", "a", "i", "l", "e", "d">>

\* What one fetch of the endpoint may bring: net is whether fetch resolved,
\* json whether the body parses, message is data.error.message.
ChatResponses ==
  { [net |-> TRUE, status |-> 200, json |-> TRUE, message |-> <<>>],
    [net |-> TRUE, status |-> 429, json |-> TRUE, message |-> <<"b", "u", "s", "y">>],
    [net |-> TRUE, status |-> 503, json |-> TRUE, message |-> <<>>],
    [net |-> TRUE, status |-> 503, json |-> FALSE, message |-> <<>>],
    [net |-> TRUE, status |-> 500, json |-> TRUE, message |-> <<>>],
    [net |-> TRUE, status |-> 400, json |-> TRUE, message |-> RateLimitText],
    [net |-> FALSE, status |-> 0, json |-> FALSE, message |-> <<>>] }

\* response.ok
ResponseOk(resp) == resp.status >= 200 /\ resp.status <= 299

\* The error the try block throws for a response: fetch rejects, or
\* response.json() rejects (neither error has a status), or the response is
\* not ok and the error carries its status and message.
ErrorOf(resp) ==
  IF ~resp.net \/ ~resp.json
  THEN [status |-> 0, message |-> RequestFailedText]
  ELSE [status |-> resp.status,
        message |-> IF resp.message # <<>> THEN resp.message
                    ELSE RequestFailedText]

\* isRateLimit(err)
IsRateLimit(err) ==
  \/ err.status = 429
  \/ Includes(ToLowerCase(err.message), <<"r", "a", "t", "e", " ", "l", "i", "m", "i", "t">>)

\* A retry test that also retries every server error.
ShouldRetryServerErrors(err) == IsRateLimit(err) \/ err.status >= 500

\* isRateLimit(err) || err?.status === 503
ShouldRetry(err) == IsRateLimit(err) \/ err.status = 503

\* Everything but the callChat call.
syncVars == <<users, emails, jobs, run, tsave, now, openaiKey, applied,
              everListed, tally, aggCall, classifyCall, webVars>>

\* Entry of callChat: without OPENAI_API_KEY it throws before any request.
ChatStart(model) ==
  /\ chat.pc = "idle"
  /\ chat' = IF openaiKey
             THEN [chat EXCEPT !.pc = "running", !.model = model]
             ELSE [chat EXCEPT !.pc = "threw", !.model = model]
  /\ UNCHANGED syncVars

\* A loop that makes one attempt more than the ladder allows.
ChatAttemptOneMore(resp) ==
  LET policy == PolicyOf(chat.model)
      attempts == Len(policy.backoffMs) + 2
      err == ErrorOf(resp)
      logged == [chat EXCEPT !.log = Append(@, resp)]
      k == IF chat.i + 1 > Len(policy.backoffMs)
           THEN Len(policy.backoffMs) ELSE chat.i + 1
  IN
  /\ chat.pc = "running"
  /\ chat.i < attempts
  /\ UNCHANGED syncVars
  /\ IF resp.net /\ resp.json /\ ResponseOk(resp)
     THEN chat' = [logged EXCEPT !.pc = "returned", !.returned = Some(resp)]
     ELSE IF ~ShouldRetry(err) \/ chat.i = attempts - 1
     THEN chat' = [logged EXCEPT !.pc = "threw", !.lastError = Some(err)]
     ELSE chat' = [logged EXCEPT
                     !.lastError = Some(err),
                     !.sleeps = Append(@, policy.backoffMs[k]),
                     !.i = @ + 1]

\* One pass of the loop: the request, and on failure the catch block with
\* its sleep.
ChatAttempt(resp) ==
  LET policy == PolicyOf(chat.model)
      attempts == Len(policy.backoffMs) + 1
      err == ErrorOf(resp)
      logged == [chat EXCEPT !.log = Append(@, resp)]
  IN
  /\ chat.pc = "running"
  /\ chat.i < attempts
  /\ UNCHANGED syncVars
  /\ IF resp.net /\ resp.json /\ ResponseOk(resp)
     THEN chat' = [logged EXCEPT !.pc = "returned", !.returned = Some(resp)]
     ELSE IF ~ShouldRetry(err) \/ chat.i = attempts - 1
     THEN chat' = [logged EXCEPT !.pc = "threw", !.lastError = Some(err)]
     ELSE chat' = [logged EXCEPT
                     !.lastError = Some(err),
                     !.sleeps = Append(@, policy.backoffMs[chat.i + 1]),
                     !.i = @ + 1]

NextChat ==
  \/ \E model \in ChatModels : ChatStart(model)
  \/ \E resp \in ChatResponses : ChatAttempt(resp)

SpecChat == Init /\ [][NextChat]_vars

(***************************************************************************)
(* companyFilter: filterEmailsByCompany called on lists of message         *)
(* documents.                                                              *)
(***************************************************************************)
\* The longest list the filter is called with.
MaxFilterLen == 2

AcmeSpaced == <<" ", "a", "C", " ">>
AcmeX == <<"A", "c", " ", "X">>

\* Message documents as the filter sees them: id and classification.
FilterDocs ==
  { [id |-> "1", classification |-> Some(Classification(TRUE, "applied", ShortSummary, Acme))],
    [id |-> "2", classification |-> Some(Classification(TRUE, "rejected", ShortSummary, AcmeSpaced))],
    [id |-> "3", classification |-> Some(Classification(TRUE, "applied", ShortSummary, AcmeX))],
    [id |-> "4", classification |-> Some(Classification(FALSE, "applied", ShortSummary, Acme))],
    [id |-> "5", classification |-> Some(Classification(TRUE, "not_job_related", ShortSummary, Acme))],
    [id |-> "6", classification |-> Some(Classification(TRUE, "applied", ShortSummary, <<>>))],
    [id |-> "7", classification |-> None] }

\* The names asked for.
FilterNames == {Acme, AcmeSpaced, AcmeX, <<"a", "c">>, <<>>, <<" ">>}

\* A normalisation that lowercases only.
NormalizeCompanyNoTrim(name) == ToLowerCase(name)

\* normalizeCompany: (name || '').trim().toLowerCase()
NormalizeCompany(name) == ToLowerCase(Trim(name))

\* The callback of emails.filter; a missing company_name is the empty
\* string here, unequal to the non-empty target either way.
CompanyMatches(email, target) ==
  /\ email.classification # None
  /\ email.classification[1].is_job_related
  /\ email.classification[1].status # "not_job_related"
  /\ NormalizeCompany(email.classification[1].company_name) = target

\* filterEmailsByCompany(emails, companyName)
FilterEmailsByCompany(list, companyName) ==
  LET target == NormalizeCompany(companyName)
      Keep(e) == CompanyMatches(e, target)
  IN IF target = <<>> THEN <<>> ELSE SelectSeq(list, Keep)

\* One call of the filter.
FilterCall(list, name) ==
  /\ ~filt.called
  /\ filt' = [called |-> TRUE, emails |-> list, name |-> name,
              result |-> FilterEmailsByCompany(list, name)]
  /\ UNCHANGED <<coreVars, http, cron, step, vault, logVars>>

NextFilter ==
  \E n \in 0..MaxFilterLen : \E list \in [1..n -> FilterDocs] :
    \E name \in FilterNames : FilterCall(list, name)

\* The filter touches no store: nothing is connected.
InitFilter == Init /\ users = {} /\ ~openaiKey

SpecFilter == InitFilter /\ [][NextFilter]_vars

(***************************************************************************)
(* The callers of fetchAndStoreGmailEmails: the handler of                 *)
(* POST /api/gmail/fetch (frame r1) and the scheduled sweep (frame r2),    *)
(* over two owners, with the classifier disabled.                          *)
(***************************************************************************)
OwnerB == <<"b", "@", "x">>

\* req.userSession: none, or a session with its email.
TriggerSessions ==
  {None, Some([email |-> <<>>]), Some([email |-> <<"A", "@", "X">>]),
   Some([email |-> OwnerB])}

\* All orders in which a query may return the elements of S.
Orderings(S) ==
  {seq \in [1..Cardinality(S) -> S] :
     \A i, j \in 1..Cardinality(S) : i # j => seq[i] # seq[j]}

\* tokenStore.listOwners: the lowercased userid of every user document that
\* has gmailTokens, without duplicates.
ListOwners(store) ==
  {ToLowerCase(d.userid) : d \in {u \in store : u.gmailTokens # None}}

\* A handler that answers every failure alike.
FetchResponseAll500(frame) ==
  IF frame.result = "ok"
  THEN [status |-> 200, code |-> "", fetched |-> frame.fetched]
  ELSE [status |-> 500, code |-> "", fetched |-> 0]

\* The response the handler sends once its call has settled.
FetchResponse(frame) ==
  IF frame.result = "ok"
  THEN [status |-> 200, code |-> "", fetched |-> frame.fetched]
  ELSE IF frame.result = "NO_GMAIL_TOKENS"
  THEN [status |-> 409, code |-> "NO_GMAIL_TOKENS", fetched |-> 0]
  ELSE [status |-> 500, code |-> "", fetched |-> 0]

\* POST /api/gmail/fetch up to its await: 401 without a session, 400
\* without an email, else the call of fetchAndStoreGmailEmails for the
\* lowercased email, with no options.
PostGmailFetch(session, fault) ==
  /\ http.pc = "idle"
  /\ UNCHANGED <<cron, step, filt, vault, logVars>>
  /\ IF session = None
     THEN /\ http' = [NoHttp EXCEPT !.status = 401]
          /\ UNCHANGED coreVars
     ELSE IF ToLowerCase(session[1].email) = <<>>
     THEN /\ http' = [NoHttp EXCEPT !.status = 400]
          /\ UNCHANGED coreVars
     ELSE /\ http' = [NoHttp EXCEPT !.pc = "await",
                                    !.owner = ToLowerCase(session[1].email)]
          /\ StartRun("r1", ToLowerCase(session[1].email), FALSE, FALSE, fault)

\* The handler after its await: the result, or the error mapped to 409 or 500.
FetchResponds ==
  /\ http.pc = "await"
  /\ run["r1"].pc = "idle"
  /\ http' = [pc |-> "idle", owner |-> http.owner] @@ FetchResponse(run["r1"])
  /\ UNCHANGED <<coreVars, cron, step, filt, vault, logVars>>

\* The cron callback up to its loop: listOwners (a failed query answers
\* the empty list); without owners the sweep is skipped.
CronTick(order, fault) ==
  LET owners == IF fault THEN <<>> ELSE order IN
  /\ cron.pc = "idle"
  /\ order \in Orderings(ListOwners(users))
  /\ cron' = [pc |-> IF owners = <<>> THEN "idle" ELSE "next",
              owners |-> owners, listed |-> owners, calls |-> <<>>]
  /\ UNCHANGED <<coreVars, http, step, filt, vault, logVars>>

\* The loop body up to its await: the call for the next owner, with the
\* previous-day range as query override and skipStateUpdate true.
CronCall(fault) ==
  /\ cron.pc = "next"
  /\ StartRun("r2", Head(cron.owners), TRUE, TRUE, fault)
  /\ cron' = [cron EXCEPT
                !.pc = "await",
                !.calls = Append(@, [owner |-> Head(cron.owners),
                                     override |-> TRUE, skip |-> TRUE,
                                     result |-> "running"])]
  /\ UNCHANGED <<http, step, filt, vault, logVars>>

\* A sweep that gives up at the first owner whose call fails.
CronSettleAborting ==
  LET rest == IF run["r2"].result = "ok" THEN Tail(cron.owners) ELSE <<>> IN
  /\ cron.pc = "await"
  /\ run["r2"].pc = "idle"
  /\ cron' = [cron EXCEPT
                !.pc = IF rest = <<>> THEN "idle" ELSE "next",
                !.owners = rest,
                !.calls[Len(cron.calls)].result = run["r2"].result]
  /\ UNCHANGED <<coreVars, http, step, filt, vault, logVars>>

\* The loop body after its await: success or the caught error is logged and
\* the loop goes to the next owner.
CronSettle ==
  LET rest == Tail(cron.owners) IN
  /\ cron.pc = "await"
  /\ run["r2"].pc = "idle"
  /\ cron' = [cron EXCEPT
                !.pc = IF rest = <<>> THEN "idle" ELSE "next",
                !.owners = rest,
                !.calls[Len(cron.calls)].result = run["r2"].result]
  /\ UNCHANGED <<coreVars, http, step, filt, vault, logVars>>

\* The steps of a call once it has started, the classifier being disabled.
RunStep(r) ==
  \/ \E ids \in SUBSET MsgIds, fault \in BOOLEAN :
       ListPage(r, ids, FALSE, fault) /\ UNCHANGED webVars
  \/ \E id \in MsgIds : StoreMessage(r, id, "none") /\ UNCHANGED webVars
  \/ SaveStateRead(r, FALSE) /\ UNCHANGED webVars
  \/ SaveStateWrite(r, FALSE) /\ UNCHANGED webVars

\* One owner or both are connected; OPENAI_API_KEY is not set.
InitTrigger ==
  /\ users \in {{ConnectedUser(OwnerA)},
                {ConnectedUser(OwnerA), ConnectedUser(OwnerB)}}
  /\ emails = {}
  /\ jobs = {}
  /\ run = [r \in Runs |-> IdleRun("none", 0)]
  /\ tsave = NoTokenSave
  /\ now = 0
  /\ openaiKey = FALSE
  /\ applied = <<>>
  /\ everListed = {}
  /\ tally = <<>>
  /\ aggCall = NoAggCall
  /\ classifyCall = NoClassifyCall
  /\ chat = NoChat
  /\ WebIdle

NextTrigger ==
  \/ \E session \in TriggerSessions, fault \in BOOLEAN :
       PostGmailFetch(session, fault)
  \/ FetchResponds
  \/ \E order \in Orderings(ListOwners(users)), fault \in BOOLEAN :
       CronTick(order, fault)
  \/ \E fault \in BOOLEAN : CronCall(fault)
  \/ CronSettle
  \/ RunStep("r1")
  \/ RunStep("r2")

SpecTrigger == InitTrigger /\ [][NextTrigger]_vars

(***************************************************************************)
(* The Key Vault token store: one secret per owner, named after the        *)
(* owner's slug.                                                           *)
(***************************************************************************)
\* Owners that sign in, as the token store is given them.
VaultOwners ==
  { <<"a", ".", "b", "@", "x">>, <<"a", "_", "b", "@", "x">>,
    <<"c", "@", "x">> }

\* The characters [a-z0-9] matches with the i flag.
AlnumChars ==
  { "a", "b", "c", "d", "e", "f", "g", "h", "i", "j", "k", "l", "m", "n",
    "o", "p", "q", "r", "s", "t", "u", "v", "w", "x", "y", "z",
    "A", "B", "C", "D", "E", "F", "G", "H", "I", "J", "K", "L", "M", "N",
    "O", "P", "Q", "R", "S", "T", "U", "V", "W", "X", "Y", "Z",
    "0", "1", "2", "3", "4", "5", "6", "7", "8", "9" }

\* slugify: ownerEmail.replace(/[^a-z0-9]/gi, '-').toLowerCase()
Slugify(ownerEmail) ==
  ToLowerCase([i \in 1..Len(ownerEmail) |->
                 IF ownerEmail[i] \in AlnumChars THEN ownerEmail[i] ELSE "-"])

\* secretName: TOKEN_PREFIX followed by the slug.
SecretName(ownerEmail) == <<"gmail-token-">> \o Slugify(ownerEmail)

\* secretClient.getSecret(name): the secret of that name, if any.
GetSecret(secrets, name) ==
  LET hits == {s \in secrets : s.name = name}
  IN IF hits = {} THEN None ELSE Some(CHOOSE s \in hits : TRUE)

\* secretClient.setSecret(name, value): the secret of that name is replaced
\* or added.
SetSecret(secrets, name, payload) ==
  {s \in secrets : s.name # name} \cup {[name |-> name] @@ payload}

\* Key Vault loadTokens: the tokens of the owner's secret, null when there
\* is no such secret.
VaultLoadTokens(secrets, ownerEmail) ==
  LET secret == GetSecret(secrets, SecretName(ownerEmail))
  IN IF secret = None THEN None ELSE Some(secret[1].tokens)

\* Key Vault saveTokens up to its first await: loadTokens.
VaultSaveRead(ownerEmail, newTokens) ==
  /\ vault.pc = "idle"
  /\ vault' = [vault EXCEPT
                 !.pc = "write", !.owner = ownerEmail,
                 !.tokens = Some(newTokens),
                 !.existing = VaultLoadTokens(vault.secrets, ownerEmail)]
  /\ UNCHANGED <<coreVars, http, cron, step, filt, logVars>>

\* Key Vault saveTokens after it: the merge and setSecret (a failure
\* rejects the call).
VaultSaveWrite(fault) ==
  LET merged == MergeFields(IF vault.existing = None THEN <<>>
                            ELSE vault.existing[1],
                            vault.tokens[1])
      payload == [ownerEmail |-> vault.owner, tokens |-> merged]
  IN
  /\ vault.pc = "write"
  /\ vault' = [NoVault EXCEPT
                 !.secrets = IF fault THEN vault.secrets
                             ELSE SetSecret(vault.secrets,
                                            SecretName(vault.owner), payload)]
  /\ UNCHANGED <<coreVars, http, cron, step, filt, logVars>>

NextVault ==
  \/ \E o \in VaultOwners, t \in {ConsentTokens, RefreshedTokens} :
       VaultSaveRead(o, t)
  \/ \E fault \in BOOLEAN : VaultSaveWrite(fault)

\* The vault is empty and nothing else is in use.
InitVault == Init /\ users = {} /\ ~openaiKey

SpecVault == InitVault /\ [][NextVault]_vars

(***************************************************************************)
(* The page loop of fetchAndStoreGmailEmails: the pageToken each           *)
(* messages.list request carries, the nextPageToken each response brings,  *)
(* and the upserts of the messages fetched.  One connected owner, the      *)
(* classifier disabled.                                                    *)
(***************************************************************************)
\* The most pages the mailbox serves for one query.
MaxPages == 3

\* What a messages.list response may carry as nextPageToken: nothing, or a
\* token naming the page that follows; the mailbox's last page has none.
NextPageTokens(served) ==
  IF served + 1 >= MaxPages THEN {None} ELSE {None, Some(served + 1)}

\* messages.list with the local pageToken; pageToken becomes the response's
\* nextPageToken || undefined, and the loop goes on while it is set.
PageRequest(r) ==
  \E ids \in SUBSET MsgIds, next \in NextPageTokens(Len(pages.got)) :
    /\ ListPage(r, ids, next # None, FALSE)
    /\ pages' = [pages EXCEPT !.sent = Append(@, pages.token),
                              !.got = Append(@, [ids |-> ids, next |-> next]),
                              !.token = next]
    /\ UNCHANGED <<http, cron, filt, vault, step, hdr, day>>

\* One listed message fetched and upserted.
PageStore(r) ==
  \E id \in MsgIds :
    /\ StoreMessage(r, id, "none")
    /\ pages' = [pages EXCEPT !.stored[id] = @ + 1]
    /\ UNCHANGED <<http, cron, filt, vault, step, hdr, day>>

\* A new call: its locals are fresh.
PageStart(r) ==
  \E ov \in BOOLEAN :
    /\ StartRun(r, OwnerA, ov, FALSE, FALSE)
    /\ pages' = NoPages
    /\ UNCHANGED <<http, cron, filt, vault, step, hdr, day>>

InitPages == Init /\ users # {} /\ ~openaiKey

NextPages ==
  \/ PageStart("r1")
  \/ PageRequest("r1")
  \/ PageStore("r1")
  \/ SaveStateRead("r1", FALSE) /\ UNCHANGED webVars
  \/ SaveStateWrite("r1", FALSE) /\ UNCHANGED webVars

SpecPages == InitPages /\ [][NextPages]_vars

(***************************************************************************)
(* The header fields of a stored message: extractHeader over the headers   *)
(* of the fetched message, which carry the names the sender wrote.         *)
(***************************************************************************)
\* The most headers of a message.
MaxHeaders == 2

From == <<"F", "r", "o", "m">>
To == <<"T", "o">>
Subject == <<"S", "u", "b", "j", "e", "c", "t">>
Date == <<"D", "a", "t", "e">>

Unknown == <<"u", "n", "k", "n", "o", "w", "n">>
NoSubject == <<"(", "N", "o", " ", "s", "u", "b", "j", "e", "c", "t", ")">>

\* Header names as mail software writes them: field names are matched
\* without regard to case by mail software, and are not all capitalised.
HeaderNames ==
  {From, <<"F", "R", "O", "M">>, To, <<"t", "o">>,
   Subject, <<"s", "u", "b", "j", "e", "c", "t">>,
   Date, <<"d", "a", "t", "e">>}

\* payload.headers entries: {name, value}.
HeaderEntries ==
  {[name |-> n, value |-> v] : n \in HeaderNames, v \in {<<"v">>, <<"w">>}}

\* headers.find((h) => h.name === name), then header.value || ''.
ExtractHeader(headers, name) ==
  LET Named(h) == h.name = name
      found == SelectSeq(headers, Named)
  IN IF found = <<>> THEN <<>> ELSE found[1].value

\* a || b on strings: b when a is empty.
OrElse(a, b) == IF a = <<>> THEN b ELSE a

\* The from, to, subject and date fields of the document built from the
\* fetched message.
HeaderFields(headers) ==
  [from |-> OrElse(ExtractHeader(headers, From), Unknown),
   to |-> OrElse(ExtractHeader(headers, To), <<>>),
   subject |-> OrElse(ExtractHeader(headers, Subject), NoSubject),
   date |-> OrElse(ExtractHeader(headers, Date), <<>>)]

\* The document's header fields built for one fetched message.
ExtractCall(headers) ==
  /\ ~hdr.called
  /\ hdr' = [called |-> TRUE, headers |-> headers] @@ HeaderFields(headers)
  /\ UNCHANGED <<coreVars, http, cron, step, filt, vault, pages, day>>

NextHeader ==
  \E n \in 0..MaxHeaders : \E headers \in [1..n -> HeaderEntries] :
    ExtractCall(headers)

\* The extraction touches no store: nothing is connected.
InitHeader == Init /\ users = {} /\ ~openaiKey

SpecHeader == InitHeader /\ [][NextHeader]_vars

(***************************************************************************)
(* getPreviousEasternDayRangeSeconds, over instants around a change of     *)
(* America/New_York's UTC offset.  Times are ms since 2025-03-08T00:00Z;   *)
(* the zone goes from GMT-5 to GMT-4 on 2025-03-09 at 02:00 local time     *)
(* (07:00Z).                                                               *)
(***************************************************************************)
\* The days of instants drawn, after the first day.
MaxSweepDays == 3

HourMs == 60 * 60 * 1000
DayMs == 24 * 60 * 60 * 1000

\* The instant America/New_York changes its offset.
OffsetChangeMs == DayMs + 7 * HourMs

\* The instants new Date() may read: every quarter of an hour of the days
\* after the first.
Instants ==
  {DayMs + k * 15 * 60 * 1000 : k \in 0..(MaxSweepDays * 24 * 4 - 1)}

\* The timeZoneName part in 'shortOffset' style, "GMT-5" or "GMT-4", once
\* 'GMT' is removed and the text split at ':': a sign, the hours, and no
\* minutes.
ShortOffset(t) ==
  [sign |-> "-", hours |-> IF t < OffsetChangeMs THEN 5 ELSE 4,
   minutes |-> None]

\* The year, month and day parts: the civil day of t in the zone, counted
\* in days.
EasternDay(t) ==
  LET o == ShortOffset(t) IN (t - o.hours * HourMs) \div DayMs

\* new Date(`${year}-${month}-${day}T00:00:00${sign}${hours}:${minutes}`):
\* midnight of the civil day at the offset written; absent minutes are "00".
DateAtOffset(d, o) ==
  LET minutes == IF o.minutes = None THEN 0 ELSE o.minutes[1]
      ahead == o.hours * HourMs + minutes * 60 * 1000
  IN IF o.sign = "-" THEN d * DayMs + ahead ELSE d * DayMs - ahead

\* getPreviousEasternDayRangeSeconds with new Date() reading t.
PreviousEasternDayRangeSeconds(t) ==
  LET startTodayEastern == DateAtOffset(EasternDay(t), ShortOffset(t))
      startYesterdayEastern == startTodayEastern - DayMs
  IN [after |-> startYesterdayEastern \div 1000,
      before |-> startTodayEastern \div 1000]

\* One call, at instant t.
RangeCall(t) ==
  /\ ~day.called
  /\ day' = [called |-> TRUE, at |-> t] @@ PreviousEasternDayRangeSeconds(t)
  /\ UNCHANGED <<coreVars, http, cron, step, filt, vault, pages, hdr>>

NextRange == \E t \in Instants : RangeCall(t)

\* The helper touches no store: nothing is connected.
InitRange == Init /\ users = {} /\ ~openaiKey

SpecRange == InitRange /\ [][NextRange]_vars

(***************************************************************************)
(* Runs of one connected owner whose classifier names one company in       *)
(* several spellings; the stored messages are what GET /api/gmail/company  *)
(* hands to filterEmailsByCompany.                                         *)
(***************************************************************************)
\* One company as the classifier may spell it.
CompanySpellings ==
  {<<"A", " ", "c">>, <<"a", " ", " ", "c">>, <<"A", "\t", "c">>}

CompanyResponses ==
  { [kind |-> "json",
     value |-> Some(Classification(TRUE, "applied", ShortSummary, n))] :
      n \in CompanySpellings }

InitCompany == Init /\ users # {} /\ openaiKey

NextCompany ==
  \/ \E ov \in BOOLEAN :
       StartRun("r1", OwnerA, ov, FALSE, FALSE) /\ UNCHANGED webVars
  \/ \E ids \in SUBSET MsgIds, more \in BOOLEAN :
       ListPage("r1", ids, more, FALSE) /\ UNCHANGED webVars
  \/ \E id \in MsgIds : StoreMessage("r1", id, "none") /\ UNCHANGED webVars
  \/ \E resp \in CompanyResponses :
       ClassifyMessage("r1", resp, "none") /\ UNCHANGED webVars
  \/ SaveStateRead("r1", FALSE) /\ UNCHANGED webVars
  \/ SaveStateWrite("r1", FALSE) /\ UNCHANGED webVars

SpecCompany == InitCompany /\ [][NextCompany]_vars

(***************************************************************************)
(* Two manual triggers of one connected owner, whose calls of              *)
(* fetchAndStoreGmailEmails overlap: the handler starts a call per         *)
(* request, whatever else is in flight.  The classifier is disabled.       *)
(***************************************************************************)
\* POST /api/gmail/fetch for the signed-in owner: an incremental call.
ManualStart(r) ==
  StartRun(r, OwnerA, FALSE, FALSE, FALSE) /\ UNCHANGED webVars

InitOverlap == Init /\ users # {} /\ ~openaiKey

NextOverlap ==
  \/ ManualStart("r1")
  \/ ManualStart("r2")
  \/ RunStep("r1")
  \/ RunStep("r2")

SpecOverlap == InitOverlap /\ [][NextOverlap]_vars

(***************************************************************************)
(* Properties of the cursor (runs with their credential saves, SpecCred).  *)
(***************************************************************************)
\* The largest internalDate among a set of listed messages (0 if none).
LargestInternalDate(ids) ==
  IF ids = {} THEN 0
  ELSE CHOOSE m \in {RawInternalDate[i] : i \in ids} :
         \A i \in ids : RawInternalDate[i] <= m

\* C1: with at most one sync in flight per owner, no step of any sequence
\* of runs lowers the owner's stored cursor lastInternalDateMs.
CursorNeverDecreases == [][Cursor(OwnerA)' >= Cursor(OwnerA)]_vars

\* The step by which run r returns normally.
ReturnsOk(r) == run[r].pc # "idle" /\ run'[r].pc = "idle" /\ run'[r].result = "ok"

\* C2: when an incremental run (no query override, skipStateUpdate false)
\* that listed at least one message returns, the stored cursor is the
\* larger of the cursor the run started from and the largest internalDate
\* among the messages it listed.
CursorAfterIncrementalRun ==
  [][\A r \in Runs : \A pk \in {run[r].owner} :
       (ReturnsOk(r) /\ ~run[r].override /\ ~run[r].skip /\ run[r].listed # {})
         => Cursor(pk)' = Max(run[r].last, LargestInternalDate(run[r].listed))]_vars

\* C3: a run given a query override never changes the owner's cursor,
\* whatever skipStateUpdate is: neither a step of the run itself nor the
\* credential save its token callback started changes it.
OverrideRunLeavesCursor ==
  [][(\/ \E r \in Runs : run[r].pc # "idle" /\ run[r].override /\ run'[r] # run[r]
      \/ tsave.pc = "write" /\ tsave.byOverride /\ tsave' # tsave)
       => Cursor(OwnerA)' = Cursor(OwnerA)]_vars

(***************************************************************************)
(* Properties of the message store and of the gate (Spec).                 *)
(***************************************************************************)
\* The stored message documents of one (owner, message id).
DocsOf(store, pk, id) == {d \in store : d.owner = pk /\ d.id = id}

\* No run is under way.
Quiescent == \A r \in Runs : run[r].pc = "idle"

\* C4 as stated: between runs the message store holds exactly one document
\* for every (owner, message id) that a page has ever listed.
OneDocPerListedMessage ==
  Quiescent =>
    \A k \in everListed : Cardinality(DocsOf(emails, k[1], k[2])) = 1

\* C4, amended: the message store never holds two documents of one
\* (owner, message id); it holds one for every message a run has stored;
\* storing a message that has a document adds none; no step removes the
\* document of an (owner, message id).
OneDocPerStoredMessage ==
  /\ [](\A d \in emails : Cardinality(DocsOf(emails, d.owner, d.id)) = 1)
  /\ [](\A r \in Runs : \A id \in run[r].docs :
          Cardinality(DocsOf(emails, run[r].owner, id)) = 1)
  /\ [][/\ \A d \in emails : DocsOf(emails', d.owner, d.id) # {}
        /\ (\A id \in MsgIds : DocsOf(emails', OwnerA, id) # {}
                                 => DocsOf(emails, OwnerA, id) # {})
             => Cardinality(emails') = Cardinality(emails)]_vars

\* A message has been fetched again: its document was rewritten by a later
\* fetch, on top of the one stored before.
RefetchedDocStored ==
  /\ Quiescent
  /\ \E d \in emails : d.createdAt # 0 /\ d.classification # None

\* A stored document is classified: classification.status is set.
HasStatus(d) == d.classification # None /\ d.classification[1].status # ""

\* C5: when a run fetches a message whose stored document has
\* classification.status set, the document it upserts carries the same
\* classification, classifiedAt and createdAt, and the message is not
\* handed to the classifier (nor to upsertJobStatus).
RefetchKeepsClassified ==
  [][\A r \in Runs : \A pk \in {run[r].owner} :
       (run[r].pc = "msg" /\ run'[r].result # "error")
         => \A d \in emails :
              (d.owner = pk /\ d.id \in run[r].queue /\ HasStatus(d))
                => /\ \E e \in emails' :
                        /\ SameItem(d, e)
                        /\ e.classification = d.classification
                        /\ e.classifiedAt = d.classifiedAt
                        /\ e.createdAt = d.createdAt
                   /\ ~(run'[r].pc = "classify" /\ run'[r].cur[1].id = d.id)]_vars

\* C6: once a stored message document carries a classification, no step
\* of a later run removes or changes it.
ClassificationImmutable ==
  [][\A d \in emails :
       d.classification # None
         => \E e \in emails' :
              SameItem(d, e) /\ e.classification = d.classification]_vars

\* C7: over any sequence of runs, one at a time, upsertJobStatus writes a
\* rollup at most once for each (owner, message id).
RollupWrittenOncePerMessage ==
  \A k \in DOMAIN applied : applied[k] <= 1

(***************************************************************************)
(* Properties of upsertJobStatus (SpecAgg).                                *)
(***************************************************************************)
\* A string that is empty once trimmed.
BlankAfterTrim(str) == \A i \in 1..Len(str) : str[i] \in {" ", "\t"}

\* A step that is a call of upsertJobStatus.
AggCalled == aggCall'.n # aggCall.n

\* C8: upsertJobStatus returns null and leaves the rollup store as it was
\* when is_job_related is false, status is not_job_related or outside
\* {applied, rejected, next_steps, comment_only}, company_name is blank
\* after trimming, or owner is blank after trimming.
SkippedCallLeavesRollups ==
  [][(/\ AggCalled
      /\ aggCall'.cls # None
      /\ \/ ~aggCall'.cls[1].is_job_related
         \/ aggCall'.cls[1].status = "not_job_related"
         \/ aggCall'.cls[1].status \notin
              {"applied", "rejected", "next_steps", "comment_only"}
         \/ BlankAfterTrim(aggCall'.cls[1].company_name)
         \/ BlankAfterTrim(aggCall'.owner))
       => /\ aggCall'.ret = None
          /\ ~aggCall'.threw
          /\ jobs' = jobs]_vars

\* The last call had an actionable status but is_job_related false, and
\* found a rollup store that holds a rollup.
SkippedCallMade ==
  /\ aggCall.cls # None
  /\ ~aggCall.cls[1].is_job_related
  /\ aggCall.cls[1].status = "applied"
  /\ aggCall.ret = None
  /\ jobs # {}

\* The counters and comments a rollup id has before a call; a rollup that
\* does not exist counts nothing and has no comments.
RollupBefore(docId) ==
  IF \E d \in jobs : d.id = docId
  THEN CHOOSE d \in jobs : d.id = docId
  ELSE [applied |-> 0, rejected |-> 0, next_steps |-> 0, comments |-> <<>>]

\* new is old, a list that begins with a bare string, rewritten entry by
\* entry as {date: today, note: String(entry)}.
RewrittenLegacy(old, new, today) ==
  /\ old # <<>>
  /\ old[1].str
  /\ Len(new) = Len(old)
  /\ \A i \in 1..Len(old) :
       new[i] = [str |-> FALSE, date |-> today,
                 note |-> IF old[i].str THEN old[i].note
                          ELSE <<"[", "o", "b", "j", "]">>]

\* new is what the call may leave of the earlier comments old.
CommentsKept(old, new, today, legacy) ==
  new = old \/ (legacy /\ RewrittenLegacy(old, new, today))

\* A successful call changes one rollup, by one change: the counter of the
\* status by 1 (comments kept) or one appended {date, note} entry (counters
\* kept), and last_updated is today.  With legacy, "kept" allows the
\* rewriting of a list of bare strings.
OneChangeApplied(legacy) ==
  (AggCalled /\ aggCall'.ret # None) =>
    \E new \in jobs' : \E old \in {RollupBefore(new.id)} :
      \E st \in {aggCall'.cls[1].status} :
        /\ new = aggCall'.ret[1]
        /\ \A d \in jobs : d.id # new.id => d \in jobs'
        /\ \A e \in jobs' : e.id # new.id => e \in jobs
        /\ new.last_updated = Today
        /\ new.applied = old.applied + (IF st = "applied" THEN 1 ELSE 0)
        /\ new.rejected = old.rejected + (IF st = "rejected" THEN 1 ELSE 0)
        /\ new.next_steps = old.next_steps + (IF st = "next_steps" THEN 1 ELSE 0)
        /\ IF st = "comment_only"
           THEN /\ new.comments # <<>>
                /\ ~new.comments[Len(new.comments)].str
                /\ new.comments[Len(new.comments)].date = Today
                /\ CommentsKept(old.comments,
                                SubSeq(new.comments, 1, Len(new.comments) - 1),
                                Today, legacy)
           ELSE CommentsKept(old.comments, new.comments, Today, legacy)

\* C9 as stated: a successful call leaves the comments untouched unless the
\* status is comment_only, which appends to them.
OneChangeCommentsUntouched == [][OneChangeApplied(FALSE)]_vars

\* C9, amended: a successful upsertJobStatus changes exactly one rollup:
\* the matching counter grows by 1 (applied, rejected, next_steps) or one
\* {date, note} entry is appended (comment_only), the other counters are
\* unchanged, last_updated is today, and the earlier comments are unchanged
\* except that a list beginning with a bare string is rewritten as
\* {date: today, note} entries of the same notes.
OneChangeLegacyRewritten == [][OneChangeApplied(TRUE)]_vars

\* A counter status was applied to the rollup that had bare-string
\* comments, which are now records.
LegacyRollupCounted ==
  /\ aggCall.ret # None
  /\ aggCall.cls[1].status = "applied"
  /\ aggCall.ret[1].company_name = Beta
  /\ aggCall.ret[1].applied = 2
  /\ ~aggCall.ret[1].comments[1].str

\* C10: a rollup that started from nothing counts, per status, the
\* successful calls made for it.
CountersEqualCalls ==
  \A d \in jobs :
    d.id # OwnerA \o <<":", ":", "b">>
      => /\ d.applied = TallyOf(tally, d.id, "applied")
         /\ d.rejected = TallyOf(tally, d.id, "rejected")
         /\ d.next_steps = TallyOf(tally, d.id, "next_steps")

\* applied, rejected, applied: the rollup reads 2, 1, 0.
AppliedRejectedApplied ==
  \E d \in jobs :
    /\ d.company_name = Acme
    /\ d.applied = 2 /\ d.rejected = 1 /\ d.next_steps = 0
    /\ TallyOf(tally, d.id, "applied") = 2

(***************************************************************************)
(* Properties of callChat (SpecChat).                                      *)
(***************************************************************************)
\* The backoff ladder the source lists for a model.
LadderOf(model) ==
  CASE model = "gpt-4o-mini" -> <<400, 800, 1600, 3200>>
    [] model = "gpt-5-nano" -> <<300, 600, 1200, 2400>>
    [] OTHER -> <<500, 1000, 2000>>

\* The request got an answer that is a success.
Succeeded(resp) ==
  resp.net /\ resp.json /\ resp.status >= 200 /\ resp.status <= 299

\* The failure is HTTP 429, HTTP 503 or carries a message with "rate limit".
RetryableFailure(resp) ==
  /\ resp.net /\ resp.json
  /\ \/ resp.status \in {429, 503}
     \/ resp.message = <<"R", "a", "t", "e", " ", "L", "i", "m", "i", "t">>

\* C14: one callChat call makes at most ladder length + 1 requests; when
\* the last of them fails too, the call throws the error of that request.
ChatRequestsBounded ==
  /\ Len(chat.log) <= Len(LadderOf(chat.model)) + 1
  /\ (chat.pc = "threw" /\ chat.log # <<>>)
       => /\ chat.lastError # None
          /\ chat.lastError[1].status =
               (IF chat.log[Len(chat.log)].net /\ chat.log[Len(chat.log)].json
                THEN chat.log[Len(chat.log)].status ELSE 0)

\* Every request of the ladder failed with 429: five requests, four sleeps.
ChatLadderExhausted ==
  /\ chat.pc = "threw"
  /\ chat.model = "gpt-4o-mini"
  /\ Len(chat.log) = 5
  /\ \A k \in 1..5 : chat.log[k].status = 429
  /\ chat.lastError[1].status = 429

\* C15: callChat goes on to another request only after a failure that is
\* HTTP 429, HTTP 503 or has "rate limit" in its message; after any other
\* failure it throws at once, without a sleep.
ChatRetriesOnlyRateLimit ==
  [][(chat.pc = "running" /\ chat' # chat)
       => \A last \in {chat'.log[Len(chat'.log)]} :
            /\ chat'.pc = "running" => RetryableFailure(last)
            /\ (~Succeeded(last) /\ ~RetryableFailure(last)
                  /\ ~(last.net /\ last.status = 503))
                 => chat'.pc = "threw" /\ chat'.sleeps = chat.sleeps]_vars

\* A rate-limit message was retried, a 500 then ended the call at once.
ChatAbortedOnServerError ==
  /\ chat.pc = "threw"
  /\ Len(chat.log) = 2
  /\ chat.log[1].status = 400
  /\ chat.log[2].status = 500
  /\ Len(chat.sleeps) = 1

\* C16: when the first k requests fail with a retryable error and request
\* k+1 succeeds, exactly k sleeps were made, of the first k ladder delays
\* in order, and the successful response is returned.
ChatSleepsFollowLadder ==
  chat.pc = "returned"
    => /\ Len(chat.sleeps) = Len(chat.log) - 1
       /\ chat.sleeps = SubSeq(LadderOf(chat.model), 1, Len(chat.log) - 1)
       /\ chat.returned = Some(chat.log[Len(chat.log)])
       /\ Succeeded(chat.log[Len(chat.log)])

\* 429 on requests 1 and 2, success on 3: two sleeps, 400 then 800.
ChatThirdAttemptSucceeds ==
  /\ chat.pc = "returned"
  /\ chat.model = "gpt-4o-mini"
  /\ Len(chat.log) = 3
  /\ chat.log[1].status = 429 /\ chat.log[2].status = 429
  /\ chat.sleeps = <<400, 800>>

(***************************************************************************)
(* Further properties of upsertJobStatus (SpecAgg, SpecText).              *)
(***************************************************************************)
\* C11: upsertJobStatus is not idempotent: a second successful call with
\* the same owner and the same classification, right after the first,
\* grows the matching counter again (or appends the comment again).
SecondCallCountsAgain ==
  [][(/\ AggCalled
      /\ aggCall.ret # None /\ aggCall'.ret # None
      /\ aggCall'.cls = aggCall.cls /\ aggCall'.owner = aggCall.owner)
       => \A st \in {aggCall'.cls[1].status} :
            /\ st = "applied" =>
                 aggCall'.ret[1].applied = aggCall.ret[1].applied + 1
            /\ st = "rejected" =>
                 aggCall'.ret[1].rejected = aggCall.ret[1].rejected + 1
            /\ st = "next_steps" =>
                 aggCall'.ret[1].next_steps = aggCall.ret[1].next_steps + 1
            /\ st = "comment_only" =>
                 Len(aggCall'.ret[1].comments) =
                   Len(aggCall.ret[1].comments) + 1]_vars

\* The same comment_only classification was applied twice: the rollup has
\* the note twice.
CommentAppendedTwice ==
  /\ aggCall.ret # None
  /\ aggCall.cls[1].status = "comment_only"
  /\ Len(aggCall.ret[1].comments) = 2
  /\ aggCall.ret[1].comments[1].note = aggCall.ret[1].comments[2].note

\* The words of a string: its maximal runs of non-whitespace characters.
RECURSIVE SplitWords(_, _)
SplitWords(str, word) ==
  IF str = <<>> THEN (IF word = <<>> THEN <<>> ELSE <<word>>)
  ELSE IF Head(str) \in {" ", "\t"}
       THEN (IF word = <<>> THEN <<>> ELSE <<word>>) \o SplitWords(Tail(str), <<>>)
       ELSE SplitWords(Tail(str), Append(word, Head(str)))

\* The lower-case form of a word of the model's alphabet.
LowerWord(w) ==
  [i \in 1..Len(w) |->
     CASE w[i] = "A" -> "a" [] w[i] = "C" -> "c" [] w[i] = "X" -> "x"
       [] OTHER -> w[i]]

\* Words joined by single underscores.
RECURSIVE JoinWords(_)
JoinWords(ws) ==
  IF ws = <<>> THEN <<>>
  ELSE IF Len(ws) = 1 THEN LowerWord(ws[1])
  ELSE LowerWord(ws[1]) \o <<"_">> \o JoinWords(Tail(ws))

\* Two names equal up to case, surrounding and inner whitespace.
SameName(a, b) == JoinWords(SplitWords(a, <<>>)) = JoinWords(SplitWords(b, <<>>))

\* C12: the rollup a successful call writes has the id
\* owner "::" slug, from the trimmed, lower-cased owner and the trimmed,
\* lower-cased company name with whitespace runs as single underscores;
\* a call whose owner and company equal those of a stored rollup up to
\* case and whitespace updates that rollup and adds none.
RollupIdFromNormalizedNames ==
  [][(AggCalled /\ aggCall'.ret # None)
       => /\ aggCall'.ret[1].id =
               JoinWords(SplitWords(aggCall'.owner, <<>>)) \o <<":", ":">>
                 \o JoinWords(SplitWords(aggCall'.cls[1].company_name, <<>>))
          /\ \A d \in jobs :
               (/\ SameName(d.owner, aggCall'.owner)
                /\ SameName(d.company_name, aggCall'.cls[1].company_name))
                 => /\ aggCall'.ret[1].id = d.id
                    /\ Cardinality(jobs') = Cardinality(jobs)]_vars

\* Three spellings of one company, two of the owner, one rollup counting 3.
OneRollupForThreeSpellings ==
  /\ aggCall.ret # None
  /\ aggCall.owner = <<" ", "A", "@", "X", " ">>
  /\ aggCall.cls[1].company_name = <<" ", "a", "\t", "c", " ">>
  /\ aggCall.ret[1].company_name = <<"A", " ", "c">>
  /\ aggCall.ret[1].applied = 3

\* C13: the note a comment_only call stores is the first 280 characters of
\* the summary: its length is min(length(summary), 280).
NoteIsFirst280 ==
  [][(AggCalled /\ aggCall'.ret # None
        /\ aggCall'.cls[1].status = "comment_only")
       => \A c \in {aggCall'.ret[1].comments} :
          \A note \in {c[Len(c)].note} :
          \A summary \in {aggCall'.cls[1].summary} :
            /\ Len(note) = (IF Len(summary) < 280 THEN Len(summary) ELSE 280)
            /\ \A i \in 1..Len(note) : note[i] = summary[i]]_vars

\* A 500-character summary was stored as a note of 280 characters.
LongSummaryTruncated ==
  /\ aggCall.ret # None
  /\ aggCall.cls[1].status = "comment_only"
  /\ Len(aggCall.cls[1].summary) = 500
  /\ Len(aggCall.ret[1].comments[Len(aggCall.ret[1].comments)].note) = 280

(***************************************************************************)
(* Properties of classification within a run (Spec).                       *)
(***************************************************************************)
\* C17: a classification that fails (transport error, non-2xx response,
\* empty content, unparsable JSON) is soft: the run does not reject and
\* goes on with the next message, the message stays stored without a
\* classification, and no rollup is changed.
ClassificationFailureSoft ==
  [][\A r \in Runs : \A pk \in {run[r].owner} :
       (/\ run[r].pc = "classify"
        /\ classifyCall'.kind \in {"transport", "http429", "http503",
                                   "http500", "empty", "badjson"})
         => /\ run'[r].result # "error"
            /\ jobs' = jobs
            /\ \E d \in emails' :
                 /\ d.owner = pk /\ d.id = run[r].cur[1].id
                 /\ d.classification = None
            /\ run[r].queue # {} =>
                 run'[r].pc = "msg" /\ run'[r].queue = run[r].queue]_vars

\* The classifier's content did not parse, and the run is at the next
\* message of the page with the failed one stored unclassified.
RunContinuesAfterBadJson ==
  \E r \in Runs :
    /\ classifyCall.kind = "badjson"
    /\ run[r].pc = "msg"
    /\ \E d \in emails : d.id \in run[r].docs /\ d.classification = None

\* C18: when the endpoint answers 429 or 503 to the classification of a
\* message, the message is left unclassified only after ladder length + 1
\* requests.
ClassifierRetriedOnRateLimit ==
  [][\A r \in Runs :
       (/\ run[r].pc = "classify"
        /\ classifyCall'.kind \in {"http429", "http503"})
         => classifyCall'.requests = Len(LadderOf("gpt-4o-mini")) + 1]_vars

\* C19: a run that returns with the classifier enabled has fetched, and so
\* handed to the classifier, every stored message of the owner that was
\* without a classification.
UnclassifiedRetriedEveryRun ==
  [][\A r \in Runs : \A pk \in {run[r].owner} :
       (ReturnsOk(r) /\ openaiKey)
         => \A d \in emails :
              (d.owner = pk /\ d.classification = None)
                => d.id \in run[r].listed]_vars

\* C20: a failed rollup write or a failed upsert of the classified
\* document makes the run reject.
PersistenceFailureFatal ==
  [][\A r \in Runs :
       (/\ run[r].pc = "classify"
        /\ (classifyCall'.threw \/ classifyCall'.upsertFailed))
         => run'[r].pc = "idle" /\ run'[r].result = "error"]_vars

(***************************************************************************)
(* Properties of the query (SpecStore) and of re-syncing (Spec).           *)
(***************************************************************************)
\* The whole seconds contained in ms milliseconds, for a time within the
\* seconds the mailbox's messages lie in.
WholeSeconds(ms) ==
  CHOOSE s \in 0..(Cardinality(MsgIds) + 1) :
    s * 1000 <= ms /\ ms < (s + 1) * 1000

\* C23: the query a run starts with is the override when one is given;
\* otherwise after:<floor(cursor / 1000)> when a cursor is stored for the
\* owner; otherwise the 7-day lookback.
QueryByPrecedence ==
  [][\A r \in Runs :
       (run[r].pc = "idle" /\ run'[r].pc = "paging")
         => \A f \in {run'[r]} : \A c \in {Cursor(f.owner)} :
              /\ f.override => f.query.kind = "override"
              /\ (~f.override /\ c # 0)
                   => f.query = [kind |-> "after", after |-> WholeSeconds(c)]
              /\ (~f.override /\ c = 0) => f.query.kind = "newer_than"]_vars

\* An incremental run started from the cursor 2500 ms and asks for after:2.
QueryAfterCursorSeconds ==
  \E r \in Runs :
    /\ run[r].pc = "paging"
    /\ ~run[r].override
    /\ Cursor(run[r].owner) = 2500
    /\ run[r].query = [kind |-> "after", after |-> 2]

\* C25: an incremental run that starts from the cursor a completed
\* incremental run stored, and to which the mailbox lists no message newer
\* than that cursor, returns fetched = 0 and leaves the cursor unchanged.
ResyncFetchesNothing ==
  [][\A r \in Runs : \A pk \in {run[r].owner} :
       (/\ ReturnsOk(r)
        /\ ~run[r].override
        /\ run[r].last # 0
        /\ \A id \in run[r].listed : RawInternalDate[id] <= run[r].last)
         => run'[r].fetched = 0 /\ Cursor(pk)' = Cursor(pk)]_vars

\* C30: every stored message document carries a classification that is job
\* related: a message classified not job related, or not classified, is
\* not in the message store.
OnlyJobRelatedStored ==
  \A d \in emails :
    /\ d.classification # None
    /\ d.classification[1].is_job_related
    /\ d.classification[1].status # "not_job_related"

(***************************************************************************)
(* Properties of the store step and of the classifier's output             *)
(* (SpecStore).                                                            *)
(***************************************************************************)
\* C24: when the read of a message's existing document fails with an error
\* other than not-found, the run does not reject: the message is upserted
\* as one that has no existing document (nothing carried forward), and the
\* messages left on the page are still to be processed.
ReadFailureTolerated ==
  [][\A r \in Runs : \A pk \in {run[r].owner} :
       (run[r].pc = "msg" /\ step'.op = "store" /\ step'.fault = "read")
         => /\ run'[r].result # "error"
            /\ \E d \in emails' :
                 /\ d.owner = pk /\ d.id = step'.id
                 /\ d.classification = None
                 /\ d.classifiedAt = 0 /\ d.createdAt = 0
            /\ run'[r].queue = run[r].queue \ {step'.id}
            /\ run'[r].queue # {} => run'[r].pc \in {"msg", "classify"}]_vars

\* The read of a message that an earlier run had stored classified and
\* rolled up failed; the message is stored again, unclassified, and the run
\* has another message of the page left.
StoredAfterFailedRead ==
  \E r \in Runs :
    /\ step.op = "store" /\ step.fault = "read"
    /\ run[r].pc = "classify"
    /\ run[r].queue # {}
    /\ <<run[r].owner, step.id>> \in DOMAIN applied
    /\ \E d \in emails :
         d.owner = run[r].owner /\ d.id = step.id /\ d.classification = None

\* The five statuses of the classifier's schema.
SchemaStatuses ==
  {"applied", "rejected", "next_steps", "comment_only", "not_job_related"}

\* C27: an output of the classifier outside the five-variant schema is
\* treated as a failed call, so nothing of it is stored: every
\* classification on a stored message has one of the five statuses.
OnlySchemaResultsStored ==
  \A d \in emails :
    d.classification # None => d.classification[1].status \in SchemaStatuses

(***************************************************************************)
(* Properties of filterEmailsByCompany (SpecFilter).                       *)
(***************************************************************************)
\* Two names are equal once both are trimmed and lowercased.
SameTrimmedLower(a, b) == ToLowerCase(Trim(a)) = ToLowerCase(Trim(b))

\* The emails the filter is to return for a name.
WantedFor(email, name) ==
  /\ ~BlankAfterTrim(name)
  /\ email.classification # None
  /\ email.classification[1].is_job_related = TRUE
  /\ email.classification[1].status # "not_job_related"
  /\ SameTrimmedLower(email.classification[1].company_name, name)

\* C26: filterEmailsByCompany(emails, name) returns, in input order,
\* exactly the emails that have a classification with is_job_related true,
\* a status other than not_job_related and a company_name equal to name
\* after trimming and lowercasing both; a blank name returns the empty list.
FilterReturnsMatchesInOrder ==
  filt.called =>
    LET idx == {i \in 1..Len(filt.emails) : WantedFor(filt.emails[i], filt.name)}
    IN /\ Len(filt.result) = Cardinality(idx)
       /\ \A i \in idx :
            filt.result[Cardinality({j \in idx : j <= i})] = filt.emails[i]

\* Asked for "Ac" on a list holding " aC " and "Ac X", the filter returned
\* the first only.
AcmeMatchedNotAcmeX ==
  /\ filt.called
  /\ filt.name = Acme
  /\ Len(filt.emails) = 2
  /\ filt.emails[1].classification[1].company_name = AcmeSpaced
  /\ filt.emails[2].classification[1].company_name = AcmeX
  /\ filt.result = <<filt.emails[1]>>

(***************************************************************************)
(* Properties of the callers: the trigger endpoint and the sweep           *)
(* (SpecTrigger).                                                          *)
(***************************************************************************)
\* No credential is stored for the owner a caller names.
NoCredential(ownerRaw) ==
  LET pk == ToLowerCase(Trim(ownerRaw)) IN
  /\ pk # <<>>
  /\ ~\E u \in users : u.id = pk /\ u.gmailTokens # None

\* The call on frame r rejected with NO_GMAIL_TOKENS in this step, and the
\* step listed no message and changed no store.
RejectedUntouched(r) ==
  /\ run'[r].pc = "idle"
  /\ run'[r].result = "NO_GMAIL_TOKENS"
  /\ everListed' = everListed
  /\ emails' = emails /\ jobs' = jobs /\ users' = users

\* C21: a call for an owner without a stored credential rejects with the
\* code NO_GMAIL_TOKENS before any mailbox call, leaving message documents,
\* rollups and cursor as they were; the trigger endpoint answers that
\* rejection with 409 and code NO_GMAIL_TOKENS and any other with 500.
MissingCredentialRejected ==
  [][/\ \A o \in {http'.owner} :
          (http.pc = "idle" /\ http'.pc = "await" /\ NoCredential(o))
            => RejectedUntouched("r1")
     /\ (cron.pc = "next" /\ cron'.pc = "await"
           /\ NoCredential(Head(cron.owners)))
          => RejectedUntouched("r2")
     /\ (http.pc = "await" /\ http'.pc = "idle")
          => /\ run["r1"].result = "NO_GMAIL_TOKENS"
                  => http'.status = 409 /\ http'.code = "NO_GMAIL_TOKENS"
             /\ run["r1"].result \notin {"ok", "NO_GMAIL_TOKENS"}
                  => http'.status = 500 /\ http'.code = ""]_vars

\* The endpoint answered 409 NO_GMAIL_TOKENS to the owner that never
\* connected, and nothing is stored for that owner.
TriggerAnswered409 ==
  /\ http.pc = "idle"
  /\ http.owner = OwnerB
  /\ http.status = 409 /\ http.code = "NO_GMAIL_TOKENS"
  /\ run["r1"].result = "NO_GMAIL_TOKENS"
  /\ ~\E d \in emails : d.owner = OwnerB

\* C22: a sweep calls fetchAndStoreGmailEmails once for each owner
\* listOwners returned, in turn, each time with the query override and
\* skipStateUpdate true; a failed call does not keep the sweep from the
\* owners that remain.
SweepCallsEachOwnerOnce ==
  /\ \A i, j \in 1..Len(cron.listed) : i # j => cron.listed[i] # cron.listed[j]
  /\ Len(cron.calls) <= Len(cron.listed)
  /\ \A i \in 1..Len(cron.calls) :
       /\ cron.calls[i].owner = cron.listed[i]
       /\ cron.calls[i].override /\ cron.calls[i].skip
  /\ (cron.pc = "await" /\ run["r2"].pc # "idle")
       => /\ run["r2"].owner = cron.calls[Len(cron.calls)].owner
          /\ run["r2"].override /\ run["r2"].skip
  /\ cron.pc = "next" => Len(cron.calls) < Len(cron.listed)
  /\ cron.pc = "idle" => Len(cron.calls) = Len(cron.listed)

\* A sweep over two owners ended: the first call failed, the second ran.
SweepWentOnAfterFailure ==
  /\ cron.pc = "idle"
  /\ Len(cron.listed) = 2
  /\ Len(cron.calls) = 2
  /\ cron.calls[1].result = "error"
  /\ cron.calls[2].result = "ok"

\* C28: at most one call of fetchAndStoreGmailEmails is in flight per
\* owner: the call of a manual trigger and the call of the sweep are never
\* in flight together for the same owner.
AtMostOneSyncPerOwner ==
  \A r, q \in Runs :
    (r # q /\ run[r].pc # "idle" /\ run[q].pc # "idle")
      => run[r].owner # run[q].owner

(***************************************************************************)
(* Properties of the per-owner partition (SpecVault).                      *)
(***************************************************************************)
\* The normalized owner: trimmed and lowercased.
NormalizedOwner(ownerRaw) == ToLowerCase(Trim(ownerRaw))

\* C29: state is partitioned per owner: a credential save for owner A
\* leaves the credentials stored for every different normalized owner B as
\* they were.
CredentialSavePartitioned ==
  [][\A b \in VaultOwners : \A after \in {vault'.secrets} :
       (/\ vault.pc = "write"
        /\ NormalizedOwner(b) # NormalizedOwner(vault.owner))
         => VaultLoadTokens(after, b) = VaultLoadTokens(vault.secrets, b)]_vars

(***************************************************************************)
(* Properties of the page loop and of its failures (Spec).                 *)
(***************************************************************************)
\* The step by which run r rejects out of the page loop: while listing a
\* page, fetching or storing a message, or classifying one.
FailsInLoop(r) ==
  /\ run[r].pc \in {"paging", "msg", "classify"}
  /\ run'[r].pc = "idle"
  /\ run'[r].result = "error"

IdsGot(log) == UNION {log[i].ids : i \in 1..Len(log)}

\* The last response received carried no continuation token.
LastPageGot(log) == Len(log) > 0 /\ log[Len(log)].next = None

\* Run r is inside its page loop.
InLoop(f) == f.pc \in {"paging", "msg"}

\* C32: the first request of a run carries no token and every later one
\* the token of the response before it; a request is made only while the
\* last response carried a token; an empty page that carries a token is
\* followed by another request; the run leaves the loop exactly when a
\* response without a token has come and its messages are done, and by
\* then every id listed on any page has been fetched and upserted exactly
\* once, and no other id at all.
PagesFollowedToExhaustion ==
  [][\A r \in {"r1"} : \A f \in {run[r]} : \A g \in {run'[r]} :
       \A log \in {pages'.got} :
       /\ Len(pages'.sent) = Len(log)
       /\ \A i \in 1..Len(log) :
            pages'.sent[i] = IF i = 1 THEN None ELSE log[i - 1].next
       /\ Len(log) > Len(pages.got) /\ Len(pages.got) > 0
            => ~LastPageGot(pages.got)
       /\ (Len(log) > Len(pages.got) /\ log[Len(log)].ids = {}
           /\ ~LastPageGot(log))
            => g.pc = "paging"
       /\ (InLoop(f) /\ ~InLoop(g))
            => /\ LastPageGot(log)
               /\ \A id \in MsgIds :
                    pages'.stored[id] = IF id \in IdsGot(log) THEN 1 ELSE 0
       /\ (InLoop(f) /\ InLoop(g))
            => (~LastPageGot(log) \/ g.queue # {})]_vars

\* A run returned after three pages: an empty one with a token, then the
\* two messages, each stored once.
EmptyPageThenAllStored ==
  /\ run["r1"].pc = "idle"
  /\ run["r1"].result = "ok"
  /\ run["r1"].fetched = Cardinality(MsgIds)
  /\ Len(pages.got) = MaxPages
  /\ pages.got[1].ids = {}
  /\ pages.got[1].next # None
  /\ \A id \in MsgIds : pages.stored[id] = 1

(***************************************************************************)
(* Properties of the header fields (SpecHeader).                           *)
(***************************************************************************)
\* The value of the first header named name in any letter case ("" if
\* there is none).
RECURSIVE FirstNamed(_, _)
FirstNamed(headers, name) ==
  IF headers = <<>> THEN <<>>
  ELSE IF ToLowerCase(Head(headers).name) = ToLowerCase(name)
       THEN Head(headers).value
       ELSE FirstNamed(Tail(headers), name)

\* C33: the stored from, to, subject and date are the values of the
\* message's From, To, Subject and Date headers whatever the letter case
\* of the header names (with the defaults when a header is absent).
HeaderLookupIgnoresCase ==
  hdr.called =>
    /\ hdr.from = (IF FirstNamed(hdr.headers, From) = <<>> THEN Unknown
                   ELSE FirstNamed(hdr.headers, From))
    /\ hdr.to = FirstNamed(hdr.headers, To)
    /\ hdr.subject = (IF FirstNamed(hdr.headers, Subject) = <<>> THEN NoSubject
                      ELSE FirstNamed(hdr.headers, Subject))
    /\ hdr.date = FirstNamed(hdr.headers, Date)

(***************************************************************************)
(* Properties of the comments of a written rollup (SpecAgg).               *)
(***************************************************************************)
\* The text of a stored comment, bare string or record.
NoteText(entry) == entry.note

\* C34: after a call of upsertJobStatus that writes a rollup, every element
\* of the rollup's comments is a {date, note} record; the earlier comments,
\* bare strings included, are all there in their order with their note
\* text, and the entry of a comment_only call comes after them.
CommentsAllRecords ==
  [][(AggCalled /\ aggCall'.ret # None) =>
       \E new \in jobs' : \E old \in {RollupBefore(new.id)} :
         /\ new = aggCall'.ret[1]
         /\ \A i \in 1..Len(new.comments) :
              ~new.comments[i].str
         /\ Len(new.comments) =
              Len(old.comments)
                + (IF aggCall'.cls[1].status = "comment_only" THEN 1 ELSE 0)
         /\ \A i \in 1..Len(old.comments) :
              NoteText(new.comments[i]) = NoteText(old.comments[i])]_vars

\* The first call, a comment_only one, wrote the rollup that held one bare
\* string: the string is now a record with its text, followed by the new
\* entry.
LegacyCommentConverted ==
  /\ aggCall.n = 1
  /\ aggCall.ret # None
  /\ aggCall.cls[1].status = "comment_only"
  /\ aggCall.ret[1].company_name = Beta
  /\ Len(aggCall.ret[1].comments) = 2
  /\ ~aggCall.ret[1].comments[1].str
  /\ aggCall.ret[1].comments[1].note = <<"h", "i">>
  /\ aggCall.ret[1] \in jobs

(***************************************************************************)
(* Properties of the sweep's day range (SpecRange).                        *)
(***************************************************************************)
\* The zone's offset from UTC at instant t, in ms (negative: behind UTC).
UtcOffsetMs(t) ==
  IF t < DayMs + 7 * 60 * 60 * 1000 THEN -5 * 60 * 60 * 1000
  ELSE -4 * 60 * 60 * 1000

\* The civil day of t in the zone and its time of day.
CivilDay(t) == (t + UtcOffsetMs(t)) \div (24 * 60 * 60 * 1000)
TimeOfDay(t) == (t + UtcOffsetMs(t)) % (24 * 60 * 60 * 1000)

\* The second at which civil day d begins in the zone.
MidnightSecond(d) ==
  CHOOSE s \in {(d * 24 + h) * 60 * 60 : h \in 0..12} :
    CivilDay(s * 1000) = d /\ TimeOfDay(s * 1000) = 0

\* The sweep fires at 00:45 local time ('45 0 * * *').
SweepFiresAt(t) == TimeOfDay(t) = 45 * 60 * 1000

\* C35: at every instant at which the sweep fires, the range is
\* after = the second local midnight began the previous civil day in
\* America/New_York, before = the second local midnight began the current
\* civil day, also around a change of the zone's offset.
RangeIsPreviousCivilDay ==
  (day.called /\ SweepFiresAt(day.at)) =>
    /\ day.after = MidnightSecond(CivilDay(day.at) - 1)
    /\ day.before = MidnightSecond(CivilDay(day.at))

(***************************************************************************)
(* Properties of the rollups against the message store (Spec).             *)
(***************************************************************************)
\* The stored messages of an owner whose classification counts for the
\* rollup docId with the status st.
MessagesCounted(pk, docId, st) ==
  {d \in emails :
     /\ d.owner = pk
     /\ d.classification # None
     /\ d.classification[1].is_job_related = TRUE
     /\ d.classification[1].status = st
     /\ ~BlankAfterTrim(d.classification[1].company_name)
     /\ JobDocId(pk, Trim(d.classification[1].company_name)) = docId}

\* The rollup ids the stores give rise to: those stored and those of the
\* stored classified messages.
RollupIds(pk) ==
  {j.id : j \in {j \in jobs : j.owner = pk}}
    \cup {JobDocId(pk, Trim(d.classification[1].company_name)) :
            d \in {d \in emails : /\ d.owner = pk
                                  /\ d.classification # None
                                  /\ d.classification[1].status
                                       \in {"applied", "rejected",
                                            "next_steps", "comment_only"}
                                  /\ d.classification[1].is_job_related = TRUE
                                  /\ ~BlankAfterTrim(
                                        d.classification[1].company_name)}}

\* C36: whenever no sync is in flight, every rollup's applied, rejected and
\* next_steps equal the number of the owner's stored messages classified
\* job related with that status and a company of the rollup's slug, and
\* its comments are as many as such comment_only messages.
RollupsMatchMessages ==
  Quiescent =>
    \A pk \in {OwnerA} : \A docId \in RollupIds(pk) :
      \A j \in {RollupBefore(docId)} :
        /\ j.applied = Cardinality(MessagesCounted(pk, docId, "applied"))
        /\ j.rejected = Cardinality(MessagesCounted(pk, docId, "rejected"))
        /\ j.next_steps = Cardinality(MessagesCounted(pk, docId, "next_steps"))
        /\ Len(j.comments) = Cardinality(MessagesCounted(pk, docId, "comment_only"))

(***************************************************************************)
(* Properties of the company query against the rollups (SpecCompany).      *)
(***************************************************************************)
\* The rollup a stored classified message was counted in.
RollupOf(d) ==
  CHOOSE j \in jobs :
    /\ j.owner = d.owner
    /\ j.id = JobDocId(d.owner, Trim(d.classification[1].company_name))

\* The sequences that list every element of a finite set once.
ListingsOf(S) ==
  {l \in [1..Cardinality(S) -> S] : \A i, j \in DOMAIN l : i # j => l[i] # l[j]}

\* C37: every stored message whose classification upsertJobStatus applied
\* to a rollup is among the messages filterEmailsByCompany returns for the
\* owner's stored messages and that rollup's company_name.
CompanyQueryFindsRolledUp ==
  \A d \in emails :
    (d.classification # None /\ <<d.owner, d.id>> \in DOMAIN applied)
      => \A list \in ListingsOf({e \in emails : e.owner = d.owner}) :
           \E i \in 1..Len(FilterEmailsByCompany(list, RollupOf(d).company_name)) :
             FilterEmailsByCompany(list, RollupOf(d).company_name)[i] = d

(***************************************************************************)
(* Properties of the two saves on the owner's user document (SpecCred).    *)
(***************************************************************************)
\* The tokens stored for an owner, {} when there are none.
TokensOf(pk) == IF LoadTokens(pk) = None THEN <<>> ELSE LoadTokens(pk)[1]

\* C38: saveTokens and saveState each preserve the other's field of the
\* owner's user document, however their reads and upserts interleave: the
\* upsert of a credential save leaves the cursor as it is stored and
\* stores the tokens merged field by field over those stored (new fields
\* overwrite, others retained); the upsert of a cursor save leaves the
\* tokens as they are stored and stores the new cursor.
SavesPreserveOtherField ==
  [][/\ \A pk \in {tsave.owner} :
          (tsave.pc = "write" /\ users' # users)
            => /\ LoadState(pk)' = LoadState(pk)
               /\ TokensOf(pk)' = tsave.tokens[1] @@ TokensOf(pk)
     /\ \A r \in Runs : \A pk \in {run[r].owner} :
          (run[r].pc = "saveWrite" /\ ReturnsOk(r))
            => /\ LoadTokens(pk)' = LoadTokens(pk)
               /\ Cursor(pk)' = run[r].max]_vars

(***************************************************************************)
(* Properties of overlapping incremental runs (SpecOverlap).               *)
(***************************************************************************)
\* C39: when two incremental runs for one owner overlap, the cursor save
\* of either never leaves the stored cursor lower than it was.
OverlapKeepsCursorMonotone ==
  [][\A r \in Runs : \A pk \in {run[r].owner} :
       (run[r].pc = "saveWrite" /\ run'[r].pc = "idle")
         => Cursor(pk)' >= Cursor(pk)]_vars

====
